---- MODULE Spec2Model ----
(***************************************************************************)
(* Model of the mesh-network core of secure-message--gateway:              *)
(*   TopologyManager  (src/unnamed/part_002)                               *)
(*   MessageRouter    (src/src/network/MessageRouter.js)                   *)
(* The node registry (meshNetwork.nodes) is owned by the orchestrator,     *)
(* whose code is not part of the sources; it is modelled as environment.   *)
(***************************************************************************)
EXTENDS Integers, Sequences, FiniteSets, TLC

\* ------------------------------------------------------------------------
\* Bounds of the model and constants of the program
\* ------------------------------------------------------------------------
Names == {"A", "B", "C"}

MaxConnections == 2

\* Modelled length of the array `path` of findShortestPath; longer arrays
\* are not told apart.
MaxPathLen == 3

ConnIds == 1..MaxConnections

\* Envelopes submitted in one behaviour.
MaxMessages == 2

\* Changes of the registry, the connections and the nodes' inboxes made
\* while the router runs.
MaxEnvChanges == 2

\* Calls of retryFailedMessage in one behaviour.
MaxRetries == 1

\* Largest node map analysed by the statistics.
MaxStatNodes == 4

\* Calls of searchNodes in one behaviour.
MaxSearches == 3

\* maxRoutingAttempts of every envelope.
MaxRoutingAttempts == 3

\* Batch sizes of the intake tick and of the delivery tick.
IntakeBatch == 5

DeliveryBatch == 3

MsgIds == {"m1", "m2"}

MsgSources == {"A"}

MsgTargets == {"B", "C"}

Null == "null"

Undefined == "undefined"

\* Stand-in for JavaScript's Infinity: larger than any hop count of the model.
Infinity == 1000

\* node.id: a node's identifier, a value distinct from its name.
IdOf(n) == CASE n = "A" -> "id-A" [] n = "B" -> "id-B" [] n = "C" -> "id-C" [] n = "D" -> "id-D"

\* ------------------------------------------------------------------------
\* State
\* ------------------------------------------------------------------------
VARIABLES
  meshNodes,         \* meshNetwork.nodes: registry, name -> [status, routing]
  tmNodes,           \* TopologyManager.nodes: Map keyed by name (insertion order)
  topologyGraph,     \* TopologyManager.topologyGraph: name -> set of names
  connections,       \* TopologyManager.connections: Map id -> Connection (insertion order)
  totalConnections,  \* topologyStats.totalConnections
  lastOp,            \* observation only: the topology operation that just completed
  fsp,               \* one call of findShortestPath in progress: its locals and position
  messageQueue,      \* MessageRouter.messageQueue: envelopes awaiting path resolution
  deliveryQueue,     \* MessageRouter.deliveryQueue: delivery tasks
  failedMessages,    \* MessageRouter.failedMessages: the failed archive
  routingStats,      \* MessageRouter.routingStats: the three counters
  isInitialized,     \* MessageRouter.isInitialized (the two interval timers run)
  halted,            \* the process is stuck in a call that never returns
  inbox,             \* observation only: envelopes handed to receiveMessage, in order
  accepting,         \* nodes whose receiveMessage accepts (environment)
  envChanges,        \* observation only: number of environment changes so far
  retries,           \* observation only: number of retryFailedMessage calls so far
  released,          \* observation only: the tasks a delivery tick took and did not put back, as it left them
  removal,           \* a removeNode call suspended at an await: its node and remaining ids
  inFlight,          \* a router tick suspended at an await: its batch and pending decision
  discoveryCache,    \* DiscoveryProtocol.discoveryCache: key -> entry (insertion order)
  discoveryStats,    \* DiscoveryProtocol.discoveryStats: the counters
  discoveryReady,    \* DiscoveryProtocol.isInitialized
  lastSearch,        \* observation only: the last searchNodes call and what it returned
  lastCall,          \* observation only: the last call of routeMessage, retryFailedMessage or getCachedNodeInfo and its outcome
  connection         \* one Connection object: its endpoints, status and message count

topoVars == <<meshNodes, tmNodes, topologyGraph, connections, totalConnections, lastOp>>

routerVars == <<messageQueue, deliveryQueue, failedMessages, routingStats,
                isInitialized, halted, inbox>>

envVars == <<accepting, envChanges, retries, released>>

asyncVars == <<removal, inFlight>>

discoveryVars == <<discoveryCache, discoveryStats, discoveryReady, lastSearch>>

auxVars == <<asyncVars, discoveryVars, lastCall, connection>>

vars == <<meshNodes, tmNodes, topologyGraph, connections, totalConnections, lastOp, fsp,
          messageQueue, deliveryQueue, failedMessages, routingStats, isInitialized,
          halted, inbox, accepting, envChanges, retries, released,
          removal, inFlight, discoveryCache, discoveryStats, discoveryReady, lastSearch,
          lastCall, connection>>

\* ------------------------------------------------------------------------
\* Map helpers (a JavaScript Map keeps the insertion order of its keys)
\* ------------------------------------------------------------------------
EmptyFn == [k \in {} |-> Null]

SeqToSet(s) == {s[i] : i \in 1..Len(s)}

KeyAdd(keys, k) == IF k \in SeqToSet(keys) THEN keys ELSE Append(keys, k)

KeyDelete(keys, k) == SelectSeq(keys, LAMBDA x : x # k)

Registered(n) == n \in DOMAIN meshNodes

GraphHas(g, n) == n \in DOMAIN g

GraphSet(g, n, s) == [k \in (DOMAIN g) \cup {n} |-> IF k = n THEN s ELSE g[k]]

GraphDelete(g, n) == [k \in (DOMAIN g) \ {n} |-> g[k]]

ConnIdsOf(conns) == {conns[i].id : i \in 1..Len(conns)}

ConnById(conns, id) == CHOOSE c \in SeqToSet(conns) : c.id = id

ConnSet(conns, c) ==
  IF c.id \in ConnIdsOf(conns)
    THEN [i \in 1..Len(conns) |-> IF conns[i].id = c.id THEN c ELSE conns[i]]
    ELSE Append(conns, c)

ConnDelete(conns, id) == SelectSeq(conns, LAMBDA c : c.id # id)

Neighbors(g, n) == IF GraphHas(g, n) THEN g[n] ELSE {}

NoOp == [op |-> "none", node |-> Null, removed |-> 0]

\* ------------------------------------------------------------------------
\* Node registry (orchestrator side)
\* ------------------------------------------------------------------------
NodeRecord(n, routing) == [name |-> n, status |-> "active", routing |-> routing]

RegisterNode(n, routing) ==
  /\ ~Registered(n)
  /\ meshNodes' = [k \in (DOMAIN meshNodes) \cup {n} |->
                     IF k = n THEN NodeRecord(n, routing) ELSE meshNodes[k]]
  /\ lastOp' = NoOp
  /\ UNCHANGED <<tmNodes, topologyGraph, connections, totalConnections>>

UnregisterNode(n) ==
  /\ Registered(n)
  /\ meshNodes' = [k \in (DOMAIN meshNodes) \ {n} |-> meshNodes[k]]
  /\ lastOp' = NoOp
  /\ UNCHANGED <<tmNodes, topologyGraph, connections, totalConnections>>

\* ------------------------------------------------------------------------
\* TopologyManager: structural operations
\* ------------------------------------------------------------------------
\* addConnection on values: store the connection, then add both edges when
\* both endpoints are in the registry.
AddConnectionOp(conns, g, c) ==
  LET g1 == IF GraphHas(g, c.sourceNode) THEN g ELSE GraphSet(g, c.sourceNode, {})
      g2 == IF GraphHas(g1, c.targetNode) THEN g1 ELSE GraphSet(g1, c.targetNode, {})
      g3 == GraphSet(g2, c.sourceNode, g2[c.sourceNode] \cup {c.targetNode})
      g4 == GraphSet(g3, c.targetNode, g3[c.targetNode] \cup {c.sourceNode})
  IN [connections |-> ConnSet(conns, c),
      graph |-> IF Registered(c.sourceNode) /\ Registered(c.targetNode) THEN g4 ELSE g]

\* removeConnection on values: unknown id is a no-op; otherwise delete both
\* directions of the edge (where the key exists) and the stored connection.
RemoveConnectionOp(conns, g, id) ==
  IF id \notin ConnIdsOf(conns)
    THEN [connections |-> conns, graph |-> g]
    ELSE LET c == ConnById(conns, id)
             g1 == IF GraphHas(g, c.sourceNode)
                     THEN GraphSet(g, c.sourceNode, g[c.sourceNode] \ {c.targetNode})
                     ELSE g
             g2 == IF GraphHas(g1, c.targetNode)
                     THEN GraphSet(g1, c.targetNode, g1[c.targetNode] \ {c.sourceNode})
                     ELSE g1
         IN [connections |-> ConnDelete(conns, id), graph |-> g2]

\* Variant: collects only the connections that start at the node.
ConnectionsToRemoveSourceOnly(conns, n) ==
  LET hit == SelectSeq(conns, LAMBDA c : c.sourceNode = n)
  IN [i \in 1..Len(hit) |-> hit[i].id]

\* The ids removeNode collects, in Map order.
ConnectionsToRemove(conns, n) ==
  LET hit == SelectSeq(conns, LAMBDA c : c.sourceNode = n \/ c.targetNode = n)
  IN [i \in 1..Len(hit) |-> hit[i].id]

RECURSIVE RemoveConnections(_, _, _)
RemoveConnections(conns, g, ids) ==
  IF ids = <<>>
    THEN [connections |-> conns, graph |-> g]
    ELSE LET r == RemoveConnectionOp(conns, g, Head(ids))
         IN RemoveConnections(r.connections, r.graph, Tail(ids))

addNode(n) ==
  /\ tmNodes' = KeyAdd(tmNodes, n)
  /\ topologyGraph' = GraphSet(topologyGraph, n, {})
  /\ lastOp' = NoOp
  /\ UNCHANGED <<meshNodes, connections, totalConnections>>

removeNode(n) ==
  LET ids == ConnectionsToRemove(connections, n)
      r == RemoveConnections(connections, topologyGraph, ids)
  IN /\ connections' = r.connections
     /\ totalConnections' = IF ids = <<>> THEN totalConnections ELSE Len(r.connections)
     /\ tmNodes' = KeyDelete(tmNodes, n)
     /\ topologyGraph' = GraphDelete(r.graph, n)
     /\ lastOp' = [op |-> "removeNode", node |-> n, removed |-> Len(ids)]
     /\ UNCHANGED meshNodes

addConnection(id, a, b) ==
  LET c == [id |-> id, sourceNode |-> a, targetNode |-> b]
      r == AddConnectionOp(connections, topologyGraph, c)
  IN /\ id \in ConnIdsOf(connections) => ConnById(connections, id) = c
     /\ connections' = r.connections
     /\ topologyGraph' = r.graph
     /\ totalConnections' = Len(r.connections)
     /\ lastOp' = NoOp
     /\ UNCHANGED <<meshNodes, tmNodes>>

removeConnection(id) ==
  LET r == RemoveConnectionOp(connections, topologyGraph, id)
  IN /\ connections' = r.connections
     /\ topologyGraph' = r.graph
     /\ totalConnections' = IF id \in ConnIdsOf(connections)
                              THEN Len(r.connections) ELSE totalConnections
     /\ lastOp' = NoOp
     /\ UNCHANGED <<meshNodes, tmNodes>>

\* ------------------------------------------------------------------------
\* TopologyManager.findShortestPath
\* ------------------------------------------------------------------------
NoPath == [kind |-> "null", path |-> <<>>]

Diverges == [kind |-> "diverges", path |-> <<>>]

\* State of the search after its initialisation: every key of the node map
\* at Infinity and unvisited, and distance 0 stored under the source's id.
FspStart(nodes, src) ==
  [distances |-> [k \in SeqToSet(nodes) \cup {IdOf(src)} |->
                    IF k = IdOf(src) THEN 0 ELSE Infinity],
   previous |-> EmptyFn,
   unvisited |-> nodes]

\* The unvisited key of minimum distance, the first such in iteration order;
\* Null when every unvisited key is at Infinity.
FspPick(d) ==
  LET idx == {i \in 1..Len(d.unvisited) : d.distances[d.unvisited[i]] < Infinity}
  IN IF idx = {} THEN Null
     ELSE LET best == CHOOSE i \in idx :
                        \A j \in idx :
                          \/ d.distances[d.unvisited[i]] < d.distances[d.unvisited[j]]
                          \/ (d.distances[d.unvisited[i]] = d.distances[d.unvisited[j]] /\ i <= j)
          IN d.unvisited[best]

\* One iteration of the search loop; done is TRUE when the loop breaks.
FspSearchStep(g, d, tgtId) ==
  LET current == FspPick(d)
  IN IF d.unvisited = <<>> \/ current = Null
       THEN [d |-> d, done |-> TRUE]
       ELSE LET unv == KeyDelete(d.unvisited, current)
                relax == {n \in Neighbors(g, current) :
                            /\ n \in SeqToSet(unv)
                            /\ d.distances[current] + 1 < d.distances[n]}
            IN IF current = tgtId
                 THEN [d |-> [d EXCEPT !.unvisited = unv], done |-> TRUE]
                 ELSE [d |-> [distances |-> [k \in DOMAIN d.distances |->
                                               IF k \in relax THEN d.distances[current] + 1
                                                              ELSE d.distances[k]],
                              previous |-> [k \in (DOMAIN d.previous) \cup relax |->
                                              IF k \in relax THEN current ELSE d.previous[k]],
                              unvisited |-> unv],
                       done |-> FALSE]

RECURSIVE FspSearch(_, _, _)
FspSearch(g, d, tgtId) ==
  LET r == FspSearchStep(g, d, tgtId)
  IN IF r.done THEN r.d ELSE FspSearch(g, r.d, tgtId)

\* previous.get(k): undefined for a key that was never set.
PrevGet(prev, k) == IF k \in DOMAIN prev THEN prev[k] ELSE Undefined

\* The reconstruction loop `while (current !== null)`. Once current is
\* undefined it stays undefined (previous.get(undefined) is undefined), so
\* the loop never leaves: that outcome is Diverges.
RECURSIVE FspReconstruct(_, _, _)
FspReconstruct(prev, current, path) ==
  IF current = Null
    THEN IF Len(path) > 1 THEN [kind |-> "path", path |-> path] ELSE NoPath
    ELSE IF current = Undefined
      THEN Diverges
      ELSE FspReconstruct(prev, PrevGet(prev, current), <<current>> \o path)

FindShortestPathOp(reg, nodes, g, src, tgt) ==
  IF src \notin reg \/ tgt \notin reg
    THEN NoPath
    ELSE FspReconstruct(FspSearch(g, FspStart(nodes, src), IdOf(tgt)).previous,
                        IdOf(tgt), <<>>)

findShortestPath(src, tgt) ==
  FindShortestPathOp(DOMAIN meshNodes, tmNodes, topologyGraph, src, tgt)

\* ------------------------------------------------------------------------
\* Specification of the topology alone
\* ------------------------------------------------------------------------
FspIdle ==
  [pc |-> "idle", src |-> Null, tgt |-> Null, d |-> FspStart(<<>>, "A"),
   current |-> Null, path |-> <<>>, spin |-> 0, result |-> NoPath]

NoRemoval == [pc |-> "idle", node |-> Null, ids |-> <<>>, removed |-> 0]

NoRouting ==
  [pc |-> "idle", batch |-> <<>>, rp |-> [kind |-> "null", path |-> <<>>, k |-> 0],
   error |-> Null, ok |-> FALSE]

NoSearch == [query |-> <<>>, called |-> FALSE, threw |-> FALSE, cached |-> FALSE,
             sorted |-> FALSE, results |-> <<>>]

\* new Connection(sourceNode, targetNode).
NewConnection(a, b) ==
  [sourceNode |-> a, targetNode |-> b, status |-> "establishing", messageCount |-> 0]

\* No call of routeMessage or retryFailedMessage has been made yet.
NoCall == [op |-> "none", id |-> Null, threw |-> FALSE]

RouterQuiet ==
  /\ messageQueue = <<>>
  /\ deliveryQueue = <<>>
  /\ failedMessages = <<>>
  /\ routingStats = [messagesRouted |-> 0, messagesDelivered |-> 0, messagesFailed |-> 0]
  /\ isInitialized = FALSE
  /\ halted = FALSE
  /\ inbox = <<>>
  /\ accepting = Names
  /\ envChanges = 0
  /\ retries = 0
  /\ released = {}
  /\ removal = NoRemoval
  /\ inFlight = NoRouting
  /\ discoveryCache = <<>>
  /\ discoveryStats = [searchesPerformed |-> 0, cacheHits |-> 0, cacheMisses |-> 0]
  /\ discoveryReady = FALSE
  /\ lastSearch = NoSearch
  /\ lastCall = NoCall

RouterIdle == RouterQuiet /\ connection = NewConnection("A", "B")

InitTopo ==
  /\ meshNodes = EmptyFn
  /\ tmNodes = <<>>
  /\ topologyGraph = EmptyFn
  /\ connections = <<>>
  /\ totalConnections = 0
  /\ lastOp = NoOp
  /\ fsp = FspIdle
  /\ RouterIdle

\* A topology operation; the router and the search are not running.
TopoStep(A) == A /\ UNCHANGED <<fsp, routerVars, envVars, auxVars>>

NextTopo ==
  \/ \E n \in Names : TopoStep(RegisterNode(n, TRUE))
  \/ \E n \in Names : TopoStep(UnregisterNode(n))
  \/ \E n \in Names : TopoStep(addNode(n))
  \/ \E n \in Names : TopoStep(removeNode(n))
  \/ \E id \in ConnIds, a \in Names : \E b \in Names \ {a} : TopoStep(addConnection(id, a, b))
  \/ \E id \in ConnIds : TopoStep(removeConnection(id))

SpecTopo == InitTopo /\ [][NextTopo]_vars

\* ------------------------------------------------------------------------
\* findShortestPath, statement by statement
\* ------------------------------------------------------------------------
\* Lines 490-507: the registry check and the initialisation of the search.
FspEnter ==
  /\ fsp.pc = "call"
  /\ fsp' = IF ~Registered(fsp.src) \/ ~Registered(fsp.tgt)
              THEN [fsp EXCEPT !.pc = "returned", !.result = NoPath]
              ELSE [fsp EXCEPT !.pc = "search", !.d = FspStart(tmNodes, fsp.src)]
  /\ UNCHANGED <<topoVars, routerVars, envVars, auxVars>>

\* Lines 509-543: one iteration of `while (unvisited.size > 0)`; on break,
\* line 547 sets current to the target's id.
FspSearchIter ==
  /\ fsp.pc = "search"
  /\ LET r == FspSearchStep(topologyGraph, fsp.d, IdOf(fsp.tgt))
     IN fsp' = IF r.done
                 THEN [fsp EXCEPT !.pc = "reconstruct", !.d = r.d,
                                  !.current = IdOf(fsp.tgt), !.path = <<>>]
                 ELSE [fsp EXCEPT !.d = r.d]
  /\ UNCHANGED <<topoVars, routerVars, envVars, auxVars>>

\* Lines 549-554: one test of `while (current !== null)`: an iteration, or
\* the exit and the return. The array grows by one element per iteration.
FspReconstructIter ==
  /\ fsp.pc = "reconstruct"
  /\ fsp' = IF fsp.current = Null
              THEN [fsp EXCEPT !.pc = "returned",
                               !.result = IF Len(fsp.path) > 1
                                            THEN [kind |-> "path", path |-> fsp.path]
                                            ELSE NoPath]
              ELSE [fsp EXCEPT !.path = IF Len(fsp.path) < MaxPathLen
                                          THEN <<fsp.current>> \o fsp.path
                                          ELSE fsp.path,
                               !.current = PrevGet(fsp.d.previous, fsp.current),
                               !.spin = 1 - fsp.spin]
  /\ UNCHANGED <<topoVars, routerVars, envVars, auxVars>>

\* The array outgrows what the engine can hold: the engine aborts the
\* process, or raises an error that the catch of lines 556-559 turns into
\* a null result.
FspArrayLimit ==
  /\ fsp.pc = "reconstruct"
  /\ Len(fsp.path) = MaxPathLen
  /\ \E caught \in BOOLEAN :
       fsp' = IF caught
                THEN [fsp EXCEPT !.pc = "returned", !.result = NoPath]
                ELSE [fsp EXCEPT !.pc = "aborted"]
  /\ UNCHANGED <<topoVars, routerVars, envVars, auxVars>>

\* Symmetric graphs over the keys of the node map, each reachable by adding
\* the nodes in that order and then one connection per edge.
NodeOrders ==
  {s \in UNION {[1..k -> Names] : k \in 0..Cardinality(Names)} :
     \A i \in 1..Len(s), j \in 1..Len(s) : s[i] = s[j] => i = j}

EdgeSets == SUBSET {e \in SUBSET Names : Cardinality(e) = 2}

GraphOver(keys, edges) ==
  [n \in keys |-> {m \in keys : m # n /\ {n, m} \in edges}]

\* One stored connection per edge between keys, in a fixed order of creation.
AllPairs ==
  <<<<"A", "B">>, <<"A", "C">>, <<"B", "C">>, <<"A", "D">>, <<"B", "D">>, <<"C", "D">>>>

ConnsOver(keys, edges) ==
  LET hit == SelectSeq(AllPairs, LAMBDA p : p[1] \in keys /\ p[2] \in keys
                                            /\ {p[1], p[2]} \in edges)
  IN [i \in 1..Len(hit) |-> [id |-> i, sourceNode |-> hit[i][1], targetNode |-> hit[i][2]]]

InitFsp ==
  /\ \E reg \in SUBSET Names : meshNodes = [n \in reg |-> NodeRecord(n, TRUE)]
  /\ tmNodes \in NodeOrders
  /\ \E e \in EdgeSets :
       /\ topologyGraph = GraphOver(SeqToSet(tmNodes), e)
       /\ connections = ConnsOver(SeqToSet(tmNodes), e)
  /\ totalConnections = Len(connections)
  /\ lastOp = NoOp
  /\ \E a \in Names, b \in Names :
       fsp = [FspIdle EXCEPT !.pc = "call", !.src = a, !.tgt = b]
  /\ RouterIdle

NextFsp ==
  \/ FspEnter
  \/ FspSearchIter
  \/ FspReconstructIter
  \/ FspArrayLimit

\* The engine keeps executing the synchronous body of the call.
SpecFsp == InitFsp /\ [][NextFsp]_vars /\ WF_vars(FspEnter \/ FspSearchIter \/ FspReconstructIter)

\* ------------------------------------------------------------------------
\* TopologyManager: statistics and analysis
\* ------------------------------------------------------------------------
\* nodeIds.indexOf(x): 0 stands for the -1 of a name that is not a key.
IndexOf(nodes, x) ==
  IF x \in SeqToSet(nodes) THEN CHOOSE i \in 1..Len(nodes) : nodes[i] = x ELSE 0

\* Lines 447-463: the matrix before the triple loop.
RECURSIVE FwDirect(_, _, _)
FwDirect(d, nodes, conns) ==
  IF conns = <<>>
    THEN d
    ELSE LET si == IndexOf(nodes, Head(conns).sourceNode)
             ti == IndexOf(nodes, Head(conns).targetNode)
         IN FwDirect(IF si # 0 /\ ti # 0
                       THEN [[d EXCEPT ![si][ti] = 1] EXCEPT ![ti][si] = 1]
                       ELSE d,
                     nodes, Tail(conns))

\* Lines 466-474: the triple loop. The code updates the matrix in place; in
\* round k the entries it reads, d[i][k] and d[k][j], lie in column k and row
\* k, and those are not changed by round k because d[k][k] >= 0 (the update
\* of d[i][k] would need d[i][k] + d[k][k] < d[i][k]). So each round is the
\* same as rebuilding every entry from the matrix the round started with.
RECURSIVE FwLoop(_, _, _)
FwLoop(d, n, k) ==
  IF k > n
    THEN d
    ELSE FwLoop([i \in 1..n |-> [j \in 1..n |->
                   IF d[i][k] + d[k][j] < d[i][j]
                     THEN d[i][k] + d[k][j]
                     ELSE d[i][j]]],
                n, k + 1)

floydWarshall ==
  LET n == Len(tmNodes)
      start == [i \in 1..n |-> [j \in 1..n |-> IF i = j THEN 0 ELSE Infinity]]
  IN FwLoop(FwDirect(start, tmNodes, connections), n, 1)

MaxOf(S) == IF S = {} THEN 0 ELSE CHOOSE x \in S : \A y \in S : y <= x

\* Variant: takes the maximum over all entries, unreachable pairs included.
calculateNetworkDiameterCountsUnreachable ==
  IF Len(tmNodes) <= 1
    THEN 0
    ELSE LET d == floydWarshall
             n == Len(tmNodes)
         IN MaxOf({d[i][j] : i \in 1..n, j \in 1..n})

calculateNetworkDiameter ==
  IF Len(tmNodes) <= 1
    THEN 0
    ELSE LET d == floydWarshall
             n == Len(tmNodes)
         IN MaxOf({d[i][j] : i \in 1..n, j \in 1..n} \ {Infinity})

\* Fractions, for the divisions of the clustering coefficient.
Frac(a, b) == [num |-> a, den |-> b]

FracAdd(x, y) == Frac(x.num * y.den + y.num * x.den, x.den * y.den)

FracEq(x, y) == x.num * y.den = y.num * x.den

\* The pairs i < j of the neighbor array. The graphs analysed here are
\* symmetric, so which of the two is asked about the other does not matter.
NeighborPairs(neighbors) == {p \in SUBSET neighbors : Cardinality(p) = 2}

calculateNodeClustering(nodeId, neighbors) ==
  IF Cardinality(neighbors) < 2
    THEN Frac(0, 1)
    ELSE LET triangles == Cardinality({p \in NeighborPairs(neighbors) :
                                         \E x \in p, y \in p :
                                           x # y /\ y \in Neighbors(topologyGraph, x)})
             maxTriangles == (Cardinality(neighbors) * (Cardinality(neighbors) - 1)) \div 2
         IN IF maxTriangles > 0 THEN Frac(triangles, maxTriangles) ELSE Frac(0, 1)

RECURSIVE TotalClustering(_)
TotalClustering(keys) ==
  IF keys = {}
    THEN Frac(0, 1)
    ELSE LET n == CHOOSE x \in keys : TRUE
         IN FracAdd(calculateNodeClustering(n, topologyGraph[n]),
                    TotalClustering(keys \ {n}))

\* Variant: averages over every node of the graph.
calculateClusteringCoefficientOverAllNodes ==
  IF Len(tmNodes) = 0
    THEN Frac(0, 1)
    ELSE LET valid == {n \in DOMAIN topologyGraph : Cardinality(topologyGraph[n]) >= 2}
             total == TotalClustering(valid)
             count == Cardinality(DOMAIN topologyGraph)
         IN IF Cardinality(valid) > 0 THEN Frac(total.num, total.den * count) ELSE Frac(0, 1)

calculateClusteringCoefficient ==
  IF Len(tmNodes) = 0
    THEN Frac(0, 1)
    ELSE LET valid == {n \in DOMAIN topologyGraph : Cardinality(topologyGraph[n]) >= 2}
             total == TotalClustering(valid)
             validNodes == Cardinality(valid)
         IN IF validNodes > 0 THEN Frac(total.num, total.den * validNodes) ELSE Frac(0, 1)

\* isNetworkFullyConnected over graph g: "true", "false", or "hang" when a
\* findShortestPath call never returns. caught says that a runaway call
\* ends in an error caught inside it, which makes it return null.
RECURSIVE FullyConnectedFrom(_, _, _, _)
FullyConnectedFrom(g, first, rest, caught) ==
  IF rest = <<>>
    THEN "true"
    ELSE IF Head(rest) = first
      THEN FullyConnectedFrom(g, first, Tail(rest), caught)
      ELSE LET path == FindShortestPathOp(DOMAIN meshNodes, tmNodes, g, first, Head(rest))
           IN IF path.kind = "path"
                THEN FullyConnectedFrom(g, first, Tail(rest), caught)
                ELSE IF path.kind = "diverges" /\ ~caught THEN "hang" ELSE "false"

isNetworkFullyConnected(g, caught) ==
  IF Len(tmNodes) <= 1 THEN "true" ELSE FullyConnectedFrom(g, tmNodes[1], tmNodes, caught)

\* getNetworkBottlenecks: for each key of the node map in order, empty its
\* neighbor set, test, and put the set it had back. g is the topology graph
\* as the loop has left it so far; a test that never returns leaves the
\* set of its node emptied.
RECURSIVE BottleneckLoop(_, _, _, _)
BottleneckLoop(g, rest, found, caught) ==
  IF rest = <<>>
    THEN [kind |-> "list", nodes |-> found, graph |-> g]
    ELSE LET originalNeighbors == g[Head(rest)]
             emptied == GraphSet(g, Head(rest), {})
             r == isNetworkFullyConnected(emptied, caught)
         IN IF r = "hang"
              THEN [kind |-> "hang", nodes |-> found, graph |-> emptied]
              ELSE BottleneckLoop(GraphSet(emptied, Head(rest), originalNeighbors),
                                  Tail(rest),
                                  IF r = "false" THEN Append(found, Head(rest)) ELSE found,
                                  caught)

\* Variant: the neighbor set of a reported node is not put back.
getNetworkBottlenecksNoRestore(caught) ==
  LET r == BottleneckLoop(topologyGraph, tmNodes, <<>>, caught)
  IN [r EXCEPT !.graph = [n \in DOMAIN r.graph |->
                            IF \E i \in 1..Len(r.nodes) : r.nodes[i] = n
                              THEN {} ELSE r.graph[n]]]

getNetworkBottlenecks(caught) == BottleneckLoop(topologyGraph, tmNodes, <<>>, caught)

\* updateTopologyStats: the two derived statistics it stores.
updateTopologyStats ==
  /\ ~halted
  /\ lastOp' = [op |-> "updateTopologyStats", node |-> Null, removed |-> 0,
                networkDiameter |-> IF tmNodes = <<>> THEN 0 ELSE calculateNetworkDiameter,
                clusteringCoefficient |->
                  IF tmNodes = <<>> THEN Frac(0, 1) ELSE calculateClusteringCoefficient]
  /\ UNCHANGED <<meshNodes, tmNodes, topologyGraph, connections, totalConnections,
                 fsp, routerVars, envVars, auxVars>>

\* A call of getNetworkBottlenecks and what the caller gets. A call that
\* does not return keeps the thread, and nothing runs after it.
reportBottlenecks ==
  /\ ~halted
  /\ \E caught \in BOOLEAN : \E r \in {getNetworkBottlenecks(caught)} :
       /\ lastOp' = [op |-> "getNetworkBottlenecks", node |-> Null, removed |-> 0,
                     result |-> [kind |-> r.kind, nodes |-> r.nodes]]
       /\ topologyGraph' = r.graph
       /\ halted' = (r.kind = "hang")
  /\ UNCHANGED <<meshNodes, tmNodes, connections, totalConnections, fsp, messageQueue,
                 deliveryQueue, failedMessages, routingStats, isInitialized, inbox,
                 envVars, auxVars>>

StatNames == Names \cup {"D"}

StatOrders ==
  {s \in UNION {[1..k -> StatNames] : k \in 0..MaxStatNodes} :
     \A i \in 1..Len(s), j \in 1..Len(s) : s[i] = s[j] => i = j}

StatEdgeSets == SUBSET {e \in SUBSET StatNames : Cardinality(e) = 2}

\* Topologies built by adding registered nodes and then one connection per
\* edge: graph and connection store agree and the graph is symmetric.
InitStats ==
  /\ tmNodes \in StatOrders
  /\ meshNodes = [n \in SeqToSet(tmNodes) |-> NodeRecord(n, TRUE)]
  /\ \E e \in StatEdgeSets :
       /\ \A p \in e : p \subseteq SeqToSet(tmNodes)
       /\ topologyGraph = GraphOver(SeqToSet(tmNodes), e)
       /\ connections = ConnsOver(SeqToSet(tmNodes), e)
  /\ totalConnections = Len(connections)
  /\ lastOp = NoOp
  /\ fsp = FspIdle
  /\ RouterIdle

NextStats ==
  \/ updateTopologyStats
  \/ reportBottlenecks

SpecStats == InitStats /\ [][NextStats]_vars

\* ------------------------------------------------------------------------
\* MessageRouter: path resolution
\* ------------------------------------------------------------------------
\* getConnection(a, b) is non-null: a stored connection links a and b.
getConnection(a, b) ==
  \E i \in 1..Len(connections) :
    \/ (connections[i].sourceNode = a /\ connections[i].targetNode = b)
    \/ (connections[i].sourceNode = b /\ connections[i].targetNode = a)

getNodeConnections(n) ==
  SelectSeq(connections, LAMBDA c : c.sourceNode = n \/ c.targetNode = n)

\* path.map(nodeId => node ? node.name : nodeId)
NodeNames(path) ==
  [i \in 1..Len(path) |-> IF Registered(path[i]) THEN meshNodes[path[i]].name ELSE path[i]]

\* The loop of findFallbackPath: a breadth-first search over the stored
\* connections, queue entries {node, path}.
RECURSIVE FallbackSearch(_, _, _)
FallbackSearch(queue, visited, tgt) ==
  IF queue = <<>>
    THEN NoPath
    ELSE LET head == Head(queue)
         IN IF head.node = tgt
              THEN [kind |-> "path", path |-> head.path]
              ELSE IF head.node \in visited
                THEN FallbackSearch(Tail(queue), visited, tgt)
                ELSE LET vis == visited \cup {head.node}
                         cs == getNodeConnections(head.node)
                         nexts == [i \in 1..Len(cs) |->
                                     IF cs[i].sourceNode = head.node
                                       THEN cs[i].targetNode ELSE cs[i].sourceNode]
                         fresh == SelectSeq(nexts, LAMBDA x : x \notin vis)
                         pushed == [i \in 1..Len(fresh) |->
                                      [node |-> fresh[i], path |-> Append(head.path, fresh[i])]]
                     IN FallbackSearch(Tail(queue) \o pushed, vis, tgt)

\* Variant: the search starts with an empty path, so the source is left out.
findFallbackPathWithoutSource(src, tgt) ==
  FallbackSearch(<<[node |-> src, path |-> <<>>]>>, {}, tgt)

findFallbackPath(src, tgt) ==
  FallbackSearch(<<[node |-> src, path |-> <<src>>]>>, {}, tgt)

\* determineRoutingPath. k is the number of findShortestPath calls of this
\* tick whose runaway loop ends in an error caught inside the call (which
\* then returns null); the next such call never returns (kind "halt").
determineRoutingPath(m, k) ==
  IF ~Registered(m.sourceNode) \/ ~Registered(m.targetNode)
    THEN [kind |-> "null", path |-> <<>>, k |-> k]
    ELSE IF getConnection(m.sourceNode, m.targetNode)
      THEN [kind |-> "path", path |-> <<m.sourceNode, m.targetNode>>, k |-> k]
      ELSE LET sp == findShortestPath(m.sourceNode, m.targetNode)
               fb == findFallbackPath(m.sourceNode, m.targetNode)
           IN IF sp.kind = "path"
                THEN [kind |-> "path", path |-> NodeNames(sp.path), k |-> k]
                ELSE IF sp.kind = "diverges" /\ k = 0
                  THEN [kind |-> "halt", path |-> <<>>, k |-> k]
                  ELSE [kind |-> fb.kind, path |-> fb.path,
                        k |-> IF sp.kind = "diverges" THEN k - 1 ELSE k]

\* ------------------------------------------------------------------------
\* MessageRouter: intake
\* ------------------------------------------------------------------------
\* The router's own state, as one record the handlers transform.
RouterState ==
  [mq |-> messageQueue, dq |-> deliveryQueue, failed |-> failedMessages,
   stats |-> routingStats, inbox |-> inbox, halted |-> halted, released |-> released]

\* Variant: re-enqueues while the counter is at most the limit.
handleMessageFailureLate(R, m, err) ==
  LET m1 == [m EXCEPT !.routingAttempts = m.routingAttempts + 1,
                      !.intakeFails = m.intakeFails + 1]
  IN IF m1.routingAttempts <= MaxRoutingAttempts
       THEN [R EXCEPT !.mq = Append(R.mq, m1)]
       ELSE [R EXCEPT !.failed = Append(R.failed,
                                        [message |-> m1, error |-> err, routingPath |-> <<>>]),
                      !.stats.messagesFailed = R.stats.messagesFailed + 1]

handleMessageFailure(R, m, err) ==
  LET m1 == [m EXCEPT !.routingAttempts = m.routingAttempts + 1,
                      !.intakeFails = m.intakeFails + 1]
  IN IF m1.routingAttempts < MaxRoutingAttempts
       THEN [R EXCEPT !.mq = Append(R.mq, m1)]
       ELSE [R EXCEPT !.failed = Append(R.failed,
                                        [message |-> m1, error |-> err, routingPath |-> <<>>]),
                      !.stats.messagesFailed = R.stats.messagesFailed + 1]

\* processMessage and the catch of processMessageQueue around it.
processMessage(R, m, k) ==
  IF ~Registered(m.targetNode)
    THEN [R |-> handleMessageFailure(R, m, "TargetNotFound"), k |-> k]
    ELSE IF ~Registered(m.sourceNode)
      THEN [R |-> handleMessageFailure(R, m, "SourceNotFound"), k |-> k]
      ELSE LET rp == determineRoutingPath(m, k)
           IN IF rp.kind = "halt"
                THEN [R |-> [R EXCEPT !.halted = TRUE], k |-> rp.k]
                ELSE IF rp.kind = "null"
                  THEN [R |-> handleMessageFailure(R, m, "NoRoute"), k |-> rp.k]
                  ELSE [R |-> [R EXCEPT !.dq = Append(R.dq,
                                   [message |-> m, routingPath |-> rp.path,
                                    currentHop |-> 0, status |-> "pending"])],
                        k |-> rp.k]

RECURSIVE ProcessMessages(_, _, _)
ProcessMessages(R, batch, k) ==
  IF batch = <<>> \/ R.halted
    THEN R
    ELSE LET r == processMessage(R, Head(batch), k)
         IN ProcessMessages(r.R, Tail(batch), r.k)

\* Variant: the tick works on the whole queue.
TakeAll(q, n) == q

Take(q, n) == SubSeq(q, 1, IF Len(q) < n THEN Len(q) ELSE n)

Drop(q, n) == SubSeq(q, (IF Len(q) < n THEN Len(q) ELSE n) + 1, Len(q))

SetRouter(R) ==
  /\ messageQueue' = R.mq
  /\ deliveryQueue' = R.dq
  /\ failedMessages' = R.failed
  /\ routingStats' = R.stats
  /\ inbox' = R.inbox
  /\ halted' = R.halted
  /\ released' = R.released

\* ------------------------------------------------------------------------
\* MessageRouter: delivery
\* ------------------------------------------------------------------------
\* Variant: hands the message over without counting the delivery.
deliverMessageUncounted(R, m, targetName) ==
  IF ~Registered(targetName)
    THEN [ok |-> FALSE, error |-> "TargetNotFound", R |-> R]
    ELSE IF targetName \notin accepting
      THEN [ok |-> FALSE, error |-> "Rejected", R |-> R]
      ELSE [ok |-> TRUE, error |-> Null,
            R |-> [R EXCEPT !.inbox = Append(R.inbox, [uid |-> m.uid, node |-> targetName])]]

deliverMessage(R, m, targetName) ==
  IF ~Registered(targetName)
    THEN [ok |-> FALSE, error |-> "TargetNotFound", R |-> R]
    ELSE IF targetName \notin accepting
      THEN [ok |-> FALSE, error |-> "Rejected", R |-> R]
      ELSE [ok |-> TRUE, error |-> Null,
            R |-> [R EXCEPT !.stats.messagesDelivered = R.stats.messagesDelivered + 1,
                            !.inbox = Append(R.inbox, [uid |-> m.uid, node |-> targetName])]]

\* Variant: the status of the node is not looked at.
canRouteThroughNodeAnyStatus(n, next) ==
  /\ Registered(n)
  /\ meshNodes[n].routing
  /\ getConnection(n, next)

canRouteThroughNode(n, next) ==
  /\ Registered(n)
  /\ meshNodes[n].routing
  /\ getConnection(n, next)
  /\ meshNodes[n].status = "active"

\* forwardMessage returns normally: meshNetwork.sendMessage is called only
\* when both nodes are registered, and succeeds when the next node accepts.
forwardMessage(cur, next) ==
  (Registered(cur) /\ Registered(next)) => next \in accepting

\* The loop of findAlternativePath over the connections of the current node.
RECURSIVE AlternativeSearch(_, _, _, _)
AlternativeSearch(cs, cur, tgt, k) ==
  IF cs = <<>>
    THEN [kind |-> "null", path |-> <<>>, k |-> k]
    ELSE LET c == Head(cs)
             nextNode == IF c.sourceNode = cur THEN c.targetNode ELSE c.sourceNode
             sp == findShortestPath(nextNode, tgt)
         IN IF nextNode = tgt
              THEN AlternativeSearch(Tail(cs), cur, tgt, k)
              ELSE IF sp.kind = "path"
                THEN [kind |-> "path", path |-> <<cur>> \o NodeNames(sp.path), k |-> k]
                ELSE IF sp.kind = "diverges" /\ k = 0
                  THEN [kind |-> "halt", path |-> <<>>, k |-> k]
                  ELSE AlternativeSearch(Tail(cs), cur, tgt,
                                         IF sp.kind = "diverges" THEN k - 1 ELSE k)

findAlternativePath(cur, tgt, k) == AlternativeSearch(getNodeConnections(cur), cur, tgt, k)

\* Variant: archives at the limit and also keeps the task queued.
handleDeliveryFailureRequeues(R, task, err) ==
  LET m1 == [task.message EXCEPT !.routingAttempts = task.message.routingAttempts + 1]
  IN IF m1.routingAttempts < MaxRoutingAttempts
       THEN [R EXCEPT !.dq = Append(R.dq, [task EXCEPT !.message = m1, !.status = "pending"])]
       ELSE [R EXCEPT !.dq = Append(R.dq, [task EXCEPT !.message = m1, !.status = "pending"]),
                      !.failed = Append(R.failed,
                                        [message |-> m1, error |-> err,
                                         routingPath |-> task.routingPath]),
                      !.stats.messagesFailed = R.stats.messagesFailed + 1]

handleDeliveryFailure(R, task, err) ==
  LET m1 == [task.message EXCEPT !.routingAttempts = task.message.routingAttempts + 1]
  IN IF m1.routingAttempts < MaxRoutingAttempts
       THEN [R EXCEPT !.dq = Append(R.dq, [task EXCEPT !.message = m1, !.status = "pending"])]
       ELSE [R EXCEPT !.failed = Append(R.failed,
                                        [message |-> m1, error |-> err,
                                         routingPath |-> task.routingPath]),
                      !.stats.messagesFailed = R.stats.messagesFailed + 1]

\* The task object after the pass, no longer referenced by the queue.
Release(R, task) == [R EXCEPT !.released = R.released \cup {task}]

\* processDeliveryTask and the catch of processDeliveryQueue around it. A
\* task that returns without having delivered is not put back in the queue.
\* processDeliveryTask from the point where canRouteThroughNode has answered
\* `ok`: forward, or look for an alternative path.
AfterForwardingCheck(R, task, k, ok) ==
  LET path == task.routingPath
      hop == task.currentHop
      alt == findAlternativePath(path[hop + 1], path[hop + 2], k)
  IN IF ok
       THEN [R |-> IF forwardMessage(path[hop + 1], path[hop + 2])
                     THEN Release(R, [task EXCEPT !.currentHop = hop + 1])
                     ELSE handleDeliveryFailure(R, task, "SendFailed"),
             k |-> k]
       ELSE IF alt.kind = "halt"
         THEN [R |-> [R EXCEPT !.halted = TRUE], k |-> alt.k]
         ELSE IF alt.kind = "path"
           THEN [R |-> Release(R, [task EXCEPT !.routingPath = alt.path,
                                                    !.currentHop = 0]),
                 k |-> alt.k]
           ELSE [R |-> handleDeliveryFailure(R, task, "CannotRoute"), k |-> alt.k]

processDeliveryTask(R, task, k) ==
  LET path == task.routingPath
      hop == task.currentHop
      last == deliverMessage(R, task.message, path[Len(path)])
      direct == deliverMessage(R, task.message, path[hop + 2])
  IN IF task.status # "pending"
       THEN [R |-> R, k |-> k]
       ELSE IF hop >= Len(path) - 1
         THEN [R |-> IF last.ok THEN Release(last.R, [task EXCEPT !.status = "delivered"])
                                ELSE handleDeliveryFailure(R, task, last.error),
               k |-> k]
         ELSE IF Len(path) = 2 /\ hop = 0
           THEN [R |-> IF direct.ok THEN Release(direct.R, [task EXCEPT !.status = "delivered"])
                                    ELSE handleDeliveryFailure(R, task, direct.error),
                 k |-> k]
           ELSE AfterForwardingCheck(R, task, k,
                                     canRouteThroughNode(path[hop + 1], path[hop + 2]))

RECURSIVE ProcessDeliveryTasks(_, _, _)
ProcessDeliveryTasks(R, batch, k) ==
  IF batch = <<>> \/ R.halted
    THEN R
    ELSE LET r == processDeliveryTask(R, Head(batch), k)
         IN ProcessDeliveryTasks(r.R, Tail(batch), r.k)

\* ------------------------------------------------------------------------
\* MessageRouter: operations
\* ------------------------------------------------------------------------
initialize ==
  /\ ~isInitialized /\ ~halted
  /\ isInitialized' = TRUE
  /\ UNCHANGED <<topoVars, fsp, messageQueue, deliveryQueue, failedMessages, routingStats,
                 halted, inbox, envVars, auxVars>>

\* Variant: queues the envelope without counting it.
routeMessageUncounted(id, src, tgt) ==
  /\ isInitialized /\ ~halted
  /\ routingStats.messagesRouted < MaxMessages
  /\ messageQueue' = Append(messageQueue,
                            [uid |-> routingStats.messagesRouted + 1, id |-> id,
                             sourceNode |-> src, targetNode |-> tgt,
                             routingAttempts |-> 0, intakeFails |-> 0])
  /\ lastCall' = [op |-> "routeMessage", id |-> id, threw |-> FALSE]
  /\ UNCHANGED <<topoVars, fsp, deliveryQueue, failedMessages, routingStats, isInitialized,
                 halted, inbox, envVars, asyncVars, discoveryVars, connection>>

routeMessage(id, src, tgt) ==
  /\ isInitialized /\ ~halted
  /\ routingStats.messagesRouted < MaxMessages
  /\ messageQueue' = Append(messageQueue,
                            [uid |-> routingStats.messagesRouted + 1, id |-> id,
                             sourceNode |-> src, targetNode |-> tgt,
                             routingAttempts |-> 0, intakeFails |-> 0])
  /\ routingStats' = [routingStats EXCEPT !.messagesRouted = @ + 1]
  /\ lastCall' = [op |-> "routeMessage", id |-> id, threw |-> FALSE]
  /\ UNCHANGED <<topoVars, fsp, deliveryQueue, failedMessages, isInitialized, halted,
                 inbox, envVars, asyncVars, discoveryVars, connection>>

\* routeMessage on a router that is not initialized: the error of the
\* first check, logged and thrown again.
routeMessageRejected(id, src, tgt) ==
  /\ ~isInitialized /\ ~halted
  /\ lastCall' = [op |-> "routeMessage", id |-> id, threw |-> TRUE]
  /\ UNCHANGED <<topoVars, fsp, routerVars, envVars, asyncVars, discoveryVars, connection>>

\* shutdown: the timers are cleared, both queues emptied.
shutdown ==
  /\ isInitialized /\ ~halted
  /\ messageQueue' = <<>>
  /\ deliveryQueue' = <<>>
  /\ isInitialized' = FALSE
  /\ UNCHANGED <<topoVars, fsp, failedMessages, routingStats, halted, inbox, envVars, auxVars>>

\* One firing of the 50 ms interval.
processMessageQueue ==
  /\ isInitialized /\ ~halted
  /\ messageQueue # <<>>
  /\ \E k \in 0..Len(Take(messageQueue, IntakeBatch)) :
       SetRouter(ProcessMessages([RouterState EXCEPT !.mq = Drop(messageQueue, IntakeBatch)],
                                 Take(messageQueue, IntakeBatch), k))
  /\ UNCHANGED <<topoVars, fsp, isInitialized, accepting, envChanges, retries, auxVars>>

\* One firing of the 100 ms interval.
processDeliveryQueue ==
  /\ isInitialized /\ ~halted
  /\ deliveryQueue # <<>>
  /\ \E k \in 0..(Len(Take(deliveryQueue, DeliveryBatch)) * Len(connections)) :
       SetRouter(ProcessDeliveryTasks([RouterState EXCEPT !.dq = Drop(deliveryQueue, DeliveryBatch)],
                                      Take(deliveryQueue, DeliveryBatch), k))
  /\ UNCHANGED <<topoVars, fsp, isInitialized, accepting, envChanges, retries, auxVars>>

\* Variant: re-queues the envelope with its attempt counter as it was.
retryFailedMessageNoReset(id) ==
  /\ ~halted
  /\ retries < MaxRetries
  /\ \E i \in 1..Len(failedMessages) :
       /\ failedMessages[i].message.id = id
       /\ \A j \in 1..(i - 1) : failedMessages[j].message.id # id
       /\ failedMessages' = SubSeq(failedMessages, 1, i - 1)
                              \o SubSeq(failedMessages, i + 1, Len(failedMessages))
       /\ messageQueue' = Append(messageQueue,
                                 [failedMessages[i].message EXCEPT !.intakeFails = 0])
  /\ retries' = retries + 1
  /\ lastCall' = [op |-> "retryFailedMessage", id |-> id, threw |-> FALSE]
  /\ UNCHANGED <<topoVars, fsp, deliveryQueue, routingStats, isInitialized, halted, inbox,
                 accepting, envChanges, released, asyncVars, discoveryVars, connection>>

\* Variant: re-queues the envelope and leaves its entry in the archive.
retryFailedMessageKeepsEntry(id) ==
  /\ ~halted
  /\ retries < MaxRetries
  /\ \E i \in 1..Len(failedMessages) :
       /\ failedMessages[i].message.id = id
       /\ \A j \in 1..(i - 1) : failedMessages[j].message.id # id
       /\ failedMessages' = failedMessages
       /\ messageQueue' = Append(messageQueue,
                                 [failedMessages[i].message EXCEPT !.routingAttempts = 0,
                                                                   !.intakeFails = 0])
  /\ retries' = retries + 1
  /\ lastCall' = [op |-> "retryFailedMessage", id |-> id, threw |-> FALSE]
  /\ UNCHANGED <<topoVars, fsp, deliveryQueue, routingStats, isInitialized, halted, inbox,
                 accepting, envChanges, released, asyncVars, discoveryVars, connection>>

retryFailedMessage(id) ==
  /\ ~halted
  /\ retries < MaxRetries
  /\ \E i \in 1..Len(failedMessages) :
       /\ failedMessages[i].message.id = id
       /\ \A j \in 1..(i - 1) : failedMessages[j].message.id # id
       /\ failedMessages' = SubSeq(failedMessages, 1, i - 1)
                              \o SubSeq(failedMessages, i + 1, Len(failedMessages))
       /\ messageQueue' = Append(messageQueue,
                                 [failedMessages[i].message EXCEPT !.routingAttempts = 0,
                                                                   !.intakeFails = 0])
  /\ retries' = retries + 1
  /\ lastCall' = [op |-> "retryFailedMessage", id |-> id, threw |-> FALSE]
  /\ UNCHANGED <<topoVars, fsp, deliveryQueue, routingStats, isInitialized, halted, inbox,
                 accepting, envChanges, released, asyncVars, discoveryVars, connection>>

\* retryFailedMessage for an id no archive entry carries: findIndex gives
\* -1 and the call throws.
retryFailedMessageRejected(id) ==
  /\ ~halted
  /\ \A i \in 1..Len(failedMessages) : failedMessages[i].message.id # id
  /\ lastCall' = [op |-> "retryFailedMessage", id |-> id, threw |-> TRUE]
  /\ UNCHANGED <<topoVars, fsp, routerVars, envVars, asyncVars, discoveryVars, connection>>

\* ------------------------------------------------------------------------
\* Environment of the router: the orchestrator changes the registry and the
\* connections, and nodes open and close their inboxes, while it runs.
\* ------------------------------------------------------------------------
SetStatus(n, st) ==
  /\ Registered(n)
  /\ meshNodes[n].status # st
  /\ meshNodes' = [meshNodes EXCEPT ![n].status = st]
  /\ lastOp' = NoOp
  /\ UNCHANGED <<tmNodes, topologyGraph, connections, totalConnections>>

SetAccepting(n) ==
  /\ ~halted
  /\ envChanges < MaxEnvChanges
  /\ envChanges' = envChanges + 1
  /\ accepting' = IF n \in accepting THEN accepting \ {n} ELSE accepting \cup {n}
  /\ UNCHANGED <<topoVars, fsp, routerVars, retries, released, auxVars>>

EnvChange(A) ==
  /\ ~halted
  /\ envChanges < MaxEnvChanges
  /\ envChanges' = envChanges + 1
  /\ A
  /\ UNCHANGED <<fsp, routerVars, accepting, retries, released, auxVars>>

\* A running network: three registered nodes and the chain A - B - C.
InitRouter ==
  /\ meshNodes = [n \in Names |-> NodeRecord(n, TRUE)]
  /\ tmNodes = <<"A", "B", "C">>
  /\ topologyGraph = GraphOver(Names, {{"A", "B"}, {"B", "C"}})
  /\ connections = <<[id |-> 1, sourceNode |-> "A", targetNode |-> "B"],
                     [id |-> 2, sourceNode |-> "B", targetNode |-> "C"]>>
  /\ totalConnections = 2
  /\ lastOp = NoOp
  /\ fsp = FspIdle
  /\ RouterIdle

NextRouter ==
  \/ initialize
  \/ \E id \in MsgIds, src \in MsgSources, tgt \in MsgTargets : routeMessage(id, src, tgt)
  \/ processMessageQueue
  \/ processDeliveryQueue
  \/ \E id \in MsgIds : retryFailedMessage(id)
  \/ \E n \in Names : SetAccepting(n)
  \/ \E n \in Names, routing \in BOOLEAN : EnvChange(RegisterNode(n, routing))
  \/ \E n \in Names : EnvChange(UnregisterNode(n))
  \/ \E n \in Names, st \in {"active", "inactive"} : EnvChange(SetStatus(n, st))
  \/ \E id \in ConnIds, a \in Names : \E b \in Names \ {a} : EnvChange(addConnection(id, a, b))
  \/ \E id \in ConnIds : EnvChange(removeConnection(id))

SpecRouter == InitRouter /\ [][NextRouter]_vars

\* The router with its whole interface: calls before initialize and after
\* shutdown, and retries of ids that are not archived.
NextLifecycle ==
  \/ initialize
  \/ shutdown
  \/ \E id \in MsgIds, src \in MsgSources, tgt \in MsgTargets : routeMessage(id, src, tgt)
  \/ \E id \in MsgIds, src \in MsgSources, tgt \in MsgTargets : routeMessageRejected(id, src, tgt)
  \/ processMessageQueue
  \/ processDeliveryQueue
  \/ \E id \in MsgIds : retryFailedMessage(id)
  \/ \E id \in MsgIds : retryFailedMessageRejected(id)
  \/ \E n \in Names : SetAccepting(n)
  \/ \E n \in Names : EnvChange(UnregisterNode(n))

SpecLifecycle == InitRouter /\ [][NextLifecycle]_vars

\* The two interval timers keep firing.
SpecRouterFair ==
  SpecRouter /\ WF_vars(processMessageQueue) /\ WF_vars(processDeliveryQueue)

\* ------------------------------------------------------------------------
\* Claims about the topology
\* ------------------------------------------------------------------------

\* C6: the topology graph is symmetric in every reachable state: B is in A's
\* neighbor set if and only if A is in B's neighbor set.
C6_GraphSymmetric ==
  \A a \in Names, b \in Names :
    b \in Neighbors(topologyGraph, a) <=> a \in Neighbors(topologyGraph, b)

\* C7: every stored Connection has both of its edges in the graph, and every
\* graph edge is backed by a stored Connection.
C7_ConnectionsMatchEdges ==
  /\ \A i \in 1..Len(connections) :
       /\ connections[i].targetNode \in Neighbors(topologyGraph, connections[i].sourceNode)
       /\ connections[i].sourceNode \in Neighbors(topologyGraph, connections[i].targetNode)
  /\ \A a \in Names, b \in Names :
       b \in Neighbors(topologyGraph, a) =>
         \E i \in 1..Len(connections) :
           \/ (connections[i].sourceNode = a /\ connections[i].targetNode = b)
           \/ (connections[i].sourceNode = b /\ connections[i].targetNode = a)

\* C8: after removeNode(n) no stored connection has n as an endpoint, n is
\* not a key of the graph, n is in no neighbor set, and with n out of the
\* registry findShortestPath with n as either endpoint returns no path.
C8_RemoveNodeCleansUp ==
  lastOp.op = "removeNode" =>
    LET n == lastOp.node
    IN /\ \A i \in 1..Len(connections) :
            connections[i].sourceNode # n /\ connections[i].targetNode # n
       /\ ~GraphHas(topologyGraph, n)
       /\ \A m \in Names : n \notin Neighbors(topologyGraph, m)
       /\ ~Registered(n) =>
            \A m \in Names : /\ findShortestPath(n, m) = NoPath
                             /\ findShortestPath(m, n) = NoPath

\* C8 witness: a removeNode that had connections to remove has completed for
\* a node that is out of the registry while other nodes are still registered.
C8_Witness ==
  /\ lastOp.op = "removeNode"
  /\ lastOp.removed >= 1
  /\ ~Registered(lastOp.node)
  /\ \E m \in Names : Registered(m)

\* C9: adding a connection between two registered nodes and removing that
\* same connection leaves every node's neighbor set as it was before.
C9_AddRemoveRoundTrip ==
  \A id \in ConnIds \ ConnIdsOf(connections) :
    \A a \in DOMAIN meshNodes, b \in DOMAIN meshNodes :
      a # b =>
        LET c == [id |-> id, sourceNode |-> a, targetNode |-> b]
            added == AddConnectionOp(connections, topologyGraph, c)
            back == RemoveConnectionOp(added.connections, added.graph, id)
        IN \A n \in Names : Neighbors(back.graph, n) = Neighbors(topologyGraph, n)

\* C10: findShortestPath terminates for every topology and every pair of
\* registered nodes: every call returns a path or no-path.
C10_FindShortestPathReturns ==
  (fsp.pc = "call" /\ Registered(fsp.src) /\ Registered(fsp.tgt)) ~> (fsp.pc = "returned")

\* Hop distance from a to b in graph g by breadth-first layers; Infinity
\* when b is unreachable.
RECURSIVE HopLayers(_, _, _, _, _)
HopLayers(g, frontier, seen, d, b) ==
  IF b \in frontier
    THEN d
    ELSE LET next == UNION {Neighbors(g, x) : x \in frontier} \ seen
         IN IF next = {} THEN Infinity
                         ELSE HopLayers(g, next, seen \cup next, d + 1, b)

HopDistance(g, a, b) == HopLayers(g, {a}, {a}, 0, b)

\* C11: for registered nodes a and b, findShortestPath(a, b) returns no-path
\* exactly when b is unreachable from a in the topology graph, and otherwise
\* a sequence of node names from a to b whose consecutive nodes are adjacent
\* and whose length is the minimum (2 when a and b share an edge).
C11_ShortestPathCorrect ==
  \A a \in Names, b \in Names :
    (a # b /\ Registered(a) /\ Registered(b)) =>
      LET r == findShortestPath(a, b)
          d == HopDistance(topologyGraph, a, b)
          p == NodeNames(r.path)
      IN IF d = Infinity
           THEN r = NoPath
           ELSE /\ r.kind = "path"
                /\ Len(p) = d + 1
                /\ p[1] = a /\ p[Len(p)] = b
                /\ \A i \in 1..(Len(p) - 1) : p[i + 1] \in Neighbors(topologyGraph, p[i])

\* C16: removeConnection of an id that is not stored, and removeNode of a
\* node that is neither in the node map nor a key of the graph, leave the
\* connection store, the node map, the graph and totalConnections unchanged;
\* a second removeNode of the same node right after the first changes nothing.
C16_RemovingMissingIsNoOp ==
  /\ [][\A id \in ConnIds :
          (removeConnection(id) /\ id \notin ConnIdsOf(connections)) =>
            UNCHANGED <<connections, tmNodes, topologyGraph, totalConnections>>]_vars
  /\ [][\A n \in Names :
          (removeNode(n) /\ n \notin SeqToSet(tmNodes) /\ ~GraphHas(topologyGraph, n)) =>
            UNCHANGED <<connections, tmNodes, topologyGraph, totalConnections>>]_vars
  /\ [][\A n \in Names :
          removeNode(n) =>
            /\ ConnectionsToRemove(connections', n) = <<>>
            /\ n \notin SeqToSet(tmNodes')
            /\ ~GraphHas(topologyGraph', n)]_vars

\* C17: addNode of a name that is already a key of the topology graph leaves
\* the graph as it was: that name's neighbor set and every other one.
C17_AddPresentNodeIsNoOp ==
  [][\A n \in Names :
       (addNode(n) /\ GraphHas(topologyGraph, n)) => topologyGraph' = topologyGraph]_vars

\* ------------------------------------------------------------------------
\* Claims about the router
\* ------------------------------------------------------------------------
Uids == 1..MaxMessages

InIntake(u) == \E i \in 1..Len(messageQueue) : messageQueue[i].uid = u

InDelivery(u) == \E i \in 1..Len(deliveryQueue) : deliveryQueue[i].message.uid = u

Archived(u) == \E i \in 1..Len(failedMessages) : failedMessages[i].message.uid = u

Delivered(u) == \E i \in 1..Len(inbox) : inbox[i].uid = u

Orphaned(u) == \E t \in released : t.message.uid = u /\ t.status = "pending"

Completed(u) ==
  \E t \in released : t.message.uid = u /\ t.status = "delivered" /\ t.currentHop = 0

Copies(u) ==
  Cardinality({i \in 1..Len(messageQueue) : messageQueue[i].uid = u})
  + Cardinality({i \in 1..Len(deliveryQueue) : deliveryQueue[i].message.uid = u})
  + Cardinality({i \in 1..Len(failedMessages) : failedMessages[i].message.uid = u})

\* The envelope with uid u, wherever the router holds it.
Held(u) ==
  {messageQueue[i] : i \in {j \in 1..Len(messageQueue) : messageQueue[j].uid = u}}
  \cup {deliveryQueue[i].message :
          i \in {j \in 1..Len(deliveryQueue) : deliveryQueue[j].message.uid = u}}
  \cup {failedMessages[i].message :
          i \in {j \in 1..Len(failedMessages) : failedMessages[j].message.uid = u}}

\* C1: every accepted envelope is eventually delivered to its target or
\* present in the failed archive, as long as both ticks keep running. (An
\* envelope whose tick never returns is not held against the claim here.)
C1_DeliveredOrArchived ==
  \A u \in Uids :
    (routingStats.messagesRouted >= u) ~> (Delivered(u) \/ Archived(u) \/ halted)

\* C2: no envelope is in more than one of intake queue, delivery queue and
\* failed archive, and none appears twice in any one of them.
C2_AtMostOnePlace == \A u \in Uids : Copies(u) <= 1

\* C2 witness: after a retryFailedMessage, envelopes sit in the archive and
\* in a queue at the same time.
C2_Witness ==
  /\ retries >= 1
  /\ failedMessages # <<>>
  /\ messageQueue # <<>> \/ deliveryQueue # <<>>

UnknownNode(m) == ~Registered(m.targetNode) \/ ~Registered(m.sourceNode)

C4_ArchivedOnceAtThirdFailure ==
  [][~halted' =>
       /\ \A u \in Uids :
            (InIntake(u) \/ InDelivery(u)) =>
              \A e \in Held(u) :
                \/ /\ InIntake(u)' \/ InDelivery(u)'
                   /\ Copies(u)' = 1
                   /\ ~Archived(u)'
                   /\ \A f \in Held(u)' :
                        /\ f.routingAttempts \in {e.routingAttempts, e.routingAttempts + 1}
                        /\ f.routingAttempts < MaxRoutingAttempts
                \/ /\ Archived(u)'
                   /\ Copies(u)' = 1
                   /\ e.routingAttempts = MaxRoutingAttempts - 1
                   /\ \A f \in Held(u)' : f.routingAttempts = MaxRoutingAttempts
                \/ /\ Copies(u)' = 0
                   /\ Delivered(u)' \/ Orphaned(u)'
       /\ routingStats'.messagesFailed - routingStats.messagesFailed
            = Cardinality({u \in Uids : Archived(u)' /\ ~Archived(u)})]_vars

\* C4 witness: an archived envelope whose three failures were one at intake
\* and two at delivery, counted once.
C4_Witness ==
  \E i \in 1..Len(failedMessages) :
    /\ failedMessages[i].message.intakeFails = 1
    /\ failedMessages[i].message.routingAttempts = MaxRoutingAttempts
    /\ failedMessages[i].routingPath # <<>>
    /\ routingStats.messagesFailed = 1

DirectlyLinked(m) ==
  /\ Registered(m.sourceNode)
  /\ Registered(m.targetNode)
  /\ getConnection(m.sourceNode, m.targetNode)

\* C5: a message between two registered nodes joined by a connection is
\* resolved to [source, target] with currentHop 0; one delivery pass over
\* that task, with the target registered and accepting, delivers it:
\* messagesDelivered grows by one for it, the task ends with status
\* "delivered" and leaves the queue; the
\* currentHop of a two-node task is 0 for as long as it is queued.
C5_DirectDeliveredInOnePass ==
  /\ [][(processMessageQueue /\ ~halted') =>
          \A i \in 1..Len(Take(messageQueue, IntakeBatch)) :
            \A m \in {messageQueue[i]} :
              DirectlyLinked(m) =>
                \E j \in 1..Len(deliveryQueue') :
                  deliveryQueue'[j] =
                    [message |-> m, routingPath |-> <<m.sourceNode, m.targetNode>>,
                     currentHop |-> 0, status |-> "pending"]]_vars
  /\ [][(processDeliveryQueue /\ ~halted') =>
          /\ \A i \in 1..Len(Take(deliveryQueue, DeliveryBatch)) :
               \A t \in {deliveryQueue[i]} :
                 (/\ Len(t.routingPath) = 2
                  /\ Registered(t.routingPath[2])
                  /\ t.routingPath[2] \in accepting) =>
                   /\ ~Delivered(t.message.uid)
                   /\ Delivered(t.message.uid)'
                   /\ ~InDelivery(t.message.uid)'
                   /\ Completed(t.message.uid)'
                   /\ \E n \in 1..Len(inbox') :
                        inbox'[n] = [uid |-> t.message.uid, node |-> t.message.targetNode]
          /\ routingStats'.messagesDelivered - routingStats.messagesDelivered
               = Len(inbox') - Len(inbox)]_vars
  /\ [](\A i \in 1..Len(deliveryQueue) :
          Len(deliveryQueue[i].routingPath) = 2 =>
            deliveryQueue[i].currentHop = 0 /\ deliveryQueue[i].status = "pending")

\* C5 witness: an envelope sent over a direct connection has been delivered
\* to its target and counted, and its task is gone from the queue.
C5_Witness ==
  \E i \in 1..Len(inbox) :
    /\ inbox[i].node = "B"
    /\ getConnection("A", "B")
    /\ routingStats.messagesDelivered >= 1
    /\ ~InDelivery(inbox[i].uid)
    /\ Completed(inbox[i].uid)

\* C20: the attempt counter never exceeds maxRoutingAttempts: it is below 3
\* for every envelope in the intake queue or the delivery queue and equal to
\* 3 for every envelope in the failed archive.
C20_AttemptsCapped ==
  /\ \A i \in 1..Len(messageQueue) :
       messageQueue[i].routingAttempts \in 0..(MaxRoutingAttempts - 1)
  /\ \A i \in 1..Len(deliveryQueue) :
       deliveryQueue[i].message.routingAttempts \in 0..(MaxRoutingAttempts - 1)
  /\ \A i \in 1..Len(failedMessages) :
       failedMessages[i].message.routingAttempts = MaxRoutingAttempts

\* C20 witness: one envelope is archived at 3 attempts while another is
\* queued again after 2 failures.
C20_Witness ==
  /\ \E i \in 1..Len(failedMessages) :
       failedMessages[i].message.routingAttempts = MaxRoutingAttempts
  /\ \/ \E i \in 1..Len(messageQueue) :
          messageQueue[i].routingAttempts = MaxRoutingAttempts - 1
     \/ \E i \in 1..Len(deliveryQueue) :
          deliveryQueue[i].message.routingAttempts = MaxRoutingAttempts - 1

\* ------------------------------------------------------------------------
\* Claims about the statistics
\* ------------------------------------------------------------------------
Keys == SeqToSet(tmNodes)

IsStar ==
  /\ Cardinality(Keys) >= 3
  /\ \E hub \in Keys :
       /\ topologyGraph[hub] = Keys \ {hub}
       /\ \A leaf \in Keys \ {hub} : topologyGraph[leaf] = {hub}

IsTriangle ==
  /\ Cardinality(Keys) = 3
  /\ \A n \in Keys : topologyGraph[n] = Keys \ {n}

Connected(nodes, g) == \A a \in nodes, b \in nodes : HopDistance(g, a, b) < Infinity

\* C12: calculateNetworkDiameter returns the largest finite hop distance over
\* all pairs of nodes, unreachable pairs left out; 0 with at most one node
\* or with no connections; 2 for every star of a hub and two or more leaves.
C12_DiameterIsLargestFiniteDistance ==
  lastOp.op = "updateTopologyStats" =>
    /\ lastOp.networkDiameter
         = MaxOf({HopDistance(topologyGraph, a, b) : a \in Keys, b \in Keys} \ {Infinity})
    /\ (Len(tmNodes) <= 1 \/ connections = <<>>) => lastOp.networkDiameter = 0
    /\ IsStar => lastOp.networkDiameter = 2

\* C12 witness: the diameter of a star with three leaves has been computed.
C12_Witness ==
  /\ lastOp.op = "updateTopologyStats"
  /\ IsStar
  /\ Cardinality(Keys) = 4
  /\ lastOp.networkDiameter = 2

\* Six times the local coefficient of n (a whole number up to degree 4).
ClosedPairs(n) ==
  Cardinality({p \in NeighborPairs(topologyGraph[n]) :
                 \A x \in p, y \in p : x # y => y \in topologyGraph[x]})

RECURSIVE SixfoldLocalSum(_)
SixfoldLocalSum(S) ==
  IF S = {}
    THEN 0
    ELSE LET n == CHOOSE x \in S : TRUE
         IN (6 * ClosedPairs(n)) \div Cardinality(NeighborPairs(topologyGraph[n]))
              + SixfoldLocalSum(S \ {n})

HighDegree == {n \in Keys : Cardinality(topologyGraph[n]) >= 2}

\* C13: calculateClusteringCoefficient returns the mean, over the nodes of
\* degree at least 2 only, of adjacent neighbor pairs over neighbor pairs;
\* it is 1 for a triangle, 0 for a star and 0 when no node has degree 2.
C13_ClusteringIsMeanOverHighDegree ==
  lastOp.op = "updateTopologyStats" =>
    /\ lastOp.clusteringCoefficient.den > 0
    /\ lastOp.clusteringCoefficient.num * 6 * Cardinality(HighDegree)
         = lastOp.clusteringCoefficient.den * SixfoldLocalSum(HighDegree)
    /\ HighDegree = {} => lastOp.clusteringCoefficient.num = 0
    /\ IsTriangle => FracEq(lastOp.clusteringCoefficient, Frac(1, 1))
    /\ IsStar => lastOp.clusteringCoefficient.num = 0

\* C13 witness: a coefficient above zero has been computed for a graph that
\* also has a node of degree 1, which the mean leaves out.
C13_Witness ==
  /\ lastOp.op = "updateTopologyStats"
  /\ lastOp.clusteringCoefficient.num > 0
  /\ \E n \in Keys : Cardinality(topologyGraph[n]) = 1

\* C14: on a connected graph getNetworkBottlenecks reports exactly the nodes
\* whose removal disconnects the remaining nodes: the hub alone for a star,
\* no node for a triangle.
C14_BottlenecksAreCutNodes ==
  (lastOp.op = "getNetworkBottlenecks" /\ Connected(Keys, topologyGraph)) =>
    /\ lastOp.result.kind = "list"
    /\ SeqToSet(lastOp.result.nodes)
         = {n \in Keys :
              ~Connected(Keys \ {n}, [k \in Keys \ {n} |-> topologyGraph[k] \ {n}])}

\* ------------------------------------------------------------------------
\* DiscoveryProtocol: search and the query cache
\* ------------------------------------------------------------------------
\* Attributes of the registered nodes that a search reads.
NodeType(n) ==
  CASE n = "A" -> "gateway" [] n = "B" -> "gateway" [] n = "C" -> "relay" [] n = "D" -> "gateway"

TrustScore(n) == CASE n = "A" -> 50 [] n = "B" -> 80 [] n = "C" -> 50 [] n = "D" -> 100

ConnectionCount(n) == CASE n = "A" -> 2 [] n = "B" -> 0 [] n = "C" -> 10 [] n = "D" -> 12

TrueCapabilities(n) == CASE n = "A" -> 1 [] n = "B" -> 3 [] n = "C" -> 6 [] n = "D" -> 6

NameRank(n) == CASE n = "A" -> 1 [] n = "B" -> 2 [] n = "C" -> 3 [] n = "D" -> 4

TypeRank(t) == CASE t = "gateway" -> 1 [] t = "relay" -> 2 [] OTHER -> 3

Min(a, b) == IF a < b THEN a ELSE b

\* Array.prototype.sort is stable. Every comparator of this class orders by
\* one number per element, so the sort is modelled on <<number, element>>
\* pairs: ascending in the number, equal numbers keeping their order.
RECURSIVE InsertStable(_, _)
InsertStable(x, s) ==
  IF s = <<>>
    THEN <<x>>
    ELSE IF x[1] < Head(s)[1]
      THEN <<x>> \o s
      ELSE <<Head(s)>> \o InsertStable(x, Tail(s))

RECURSIVE SortPairs(_)
SortPairs(s) ==
  IF s = <<>>
    THEN <<>>
    ELSE InsertStable(s[Len(s)], SortPairs(SubSeq(s, 1, Len(s) - 1)))

\* keys[i] is the number the comparator orders s[i] by.
SortStable(s, keys) ==
  LET sorted == SortPairs([i \in 1..Len(s) |-> <<keys[i], s[i]>>])
  IN [i \in 1..Len(s) |-> sorted[i][2]]

\* A query object is the sequence of its own <<key, value>> pairs in the
\* order they were written; a field that is not there reads as Null.
QueryField(query, key) ==
  IF \E i \in 1..Len(query) : query[i][1] = key
    THEN query[CHOOSE i \in 1..Len(query) : query[i][1] = key][2]
    ELSE Null

\* Relevance in units of 1/3000, so that every weight is a whole number:
\* 0.5 -> 1500, 0.3 * trust / 100 -> 9 * trust, 0.2 * c / 10 -> 60 * c,
\* 0.1 -> 300, 0.1 * k / 6 -> 50 * k, cap 1.0 -> 3000.
calculateRelevance(node) ==
  Min(1500 + 9 * TrustScore(node.name)
           + 60 * Min(ConnectionCount(node.name), 10)
           + (IF node.status = "active" THEN 300 ELSE 0)
           + 50 * Min(TrueCapabilities(node.name), 6),
      3000)

createNodeInfo(node) ==
  [id |-> IdOf(node.name), name |-> node.name, type |-> NodeType(node.name),
   status |-> node.status, trustScore |-> TrustScore(node.name),
   connections |-> ConnectionCount(node.name), relevance |-> calculateRelevance(node)]

\* node.capabilities: the named flags of a node, each a boolean or a
\* string. The number of flags that are true is TrueCapabilities.
Flag(b) == [kind |-> "boolean", value |-> b, chars |-> <<>>]

Text(chars) == [kind |-> "string", value |-> FALSE, chars |-> chars]

AllSix ==
  <<<<"routing", Flag(TRUE)>>, <<"relay", Flag(TRUE)>>, <<"storage", Flag(TRUE)>>,
    <<"encryption", Flag(TRUE)>>, <<"discovery", Flag(TRUE)>>, <<"bridge", Flag(TRUE)>>>>

Capabilities(n) ==
  CASE n = "A" -> <<<<"routing", Flag(TRUE)>>, <<"relay", Flag(FALSE)>>,
                    <<"protocol", Text(<<"R", "e", "l", "a", "y", "-", "V", "2">>)>>>>
    [] n = "B" -> <<<<"routing", Flag(TRUE)>>, <<"relay", Flag(FALSE)>>,
                    <<"storage", Flag(TRUE)>>, <<"encryption", Flag(TRUE)>>>>
    [] n = "C" -> AllSix
    [] n = "D" -> AllSix

\* The characters of the capability names a query asks for.
Chars(str) ==
  CASE str = "relay" -> <<"r", "e", "l", "a", "y">>
    [] str = "bridge" -> <<"b", "r", "i", "d", "g", "e">>

\* String.prototype.toLowerCase, over the letters that occur.
toLowerCase(chars) ==
  [i \in 1..Len(chars) |->
     CASE chars[i] = "R" -> "r" [] chars[i] = "V" -> "v" [] OTHER -> chars[i]]

\* String.prototype.includes.
includes(chars, part) ==
  \E i \in 1..(Len(chars) - Len(part) + 1) : SubSeq(chars, i, i + Len(part) - 1) = part

\* Object.values(node.capabilities).some(cap => cap === true || (typeof cap
\* === 'string' && cap.toLowerCase().includes(query.capability.toLowerCase())))
hasCapability(n, capability) ==
  \E i \in 1..Len(Capabilities(n)) :
    \/ /\ Capabilities(n)[i][2].kind = "boolean"
       /\ Capabilities(n)[i][2].value
    \/ /\ Capabilities(n)[i][2].kind = "string"
       /\ includes(toLowerCase(Capabilities(n)[i][2].chars), toLowerCase(Chars(capability)))

\* Variant: the type of the query is not compared.
nodeMatchesQueryAnyType(node, query) ==
  /\ QueryField(query, "capability") = Null
       \/ hasCapability(node.name, QueryField(query, "capability"))
  /\ QueryField(query, "status") = Null \/ node.status = QueryField(query, "status")

\* nodeMatchesQuery for the query fields type, capability and status; a
\* field that is absent (or falsy) is not compared.
nodeMatchesQuery(node, query) ==
  /\ QueryField(query, "type") = Null \/ NodeType(node.name) = QueryField(query, "type")
  /\ QueryField(query, "capability") = Null
       \/ hasCapability(node.name, QueryField(query, "capability"))
  /\ QueryField(query, "status") = Null \/ node.status = QueryField(query, "status")

\* The loop of performNodeSearch over the registry in iteration order: it
\* stops as soon as `limit` matches are collected.
RECURSIVE CollectMatches(_, _, _, _)
CollectMatches(order, query, limit, results) ==
  IF order = <<>> \/ Len(results) >= limit
    THEN results
    ELSE CollectMatches(Tail(order), query, limit,
                        IF nodeMatchesQuery(meshNodes[Head(order)], query)
                          THEN Append(results, createNodeInfo(meshNodes[Head(order)]))
                          ELSE results)

\* (a, b) => b.relevance - a.relevance: descending relevance.
ByRelevance(results) == [i \in 1..Len(results) |-> 0 - results[i].relevance]

DefaultLimit == 50

performNodeSearch(order, query, options) ==
  LET results == CollectMatches(order, query,
                                IF options.limit # 0 THEN options.limit ELSE DefaultLimit,
                                <<>>)
  IN SortStable(results, ByRelevance(results))

\* filterResults: post-filters, optional sort, optional limit, on a copy.
\* An option that is 0, Null or the empty set is absent.
SortedByOption(results, sortBy) ==
  LET keys == [i \in 1..Len(results) |->
                 CASE sortBy = "name" -> NameRank(results[i].name)
                   [] sortBy = "type" -> TypeRank(results[i].type)
                   [] sortBy = "trustScore" -> 0 - results[i].trustScore
                   [] sortBy = "connections" -> 0 - results[i].connections
                   [] sortBy = "relevance" -> 0 - results[i].relevance
                   [] OTHER -> 0]
  IN SortStable(results, keys)

filterResults(results, query, options) ==
  LET f1 == SelectSeq(results, LAMBDA r : r.type \notin options.excludeTypes)
      f2 == IF options.minConnections # 0
              THEN SelectSeq(f1, LAMBDA r : r.connections >= options.minConnections)
              ELSE f1
      f3 == IF options.maxConnections # 0
              THEN SelectSeq(f2, LAMBDA r : r.connections <= options.maxConnections)
              ELSE f2
      f4 == IF options.sortBy # Null THEN SortedByOption(f3, options.sortBy) ELSE f3
  IN IF options.limit # 0 THEN SubSeq(f4, 1, Min(options.limit, Len(f4))) ELSE f4

\* generateCacheKey: the pairs of the query sorted by key, as JSON text.
KeyRank(k) ==
  CASE k = "capability" -> 1 [] k = "minTrustScore" -> 2 [] k = "name" -> 3
    [] k = "status" -> 4 [] k = "type" -> 5

generateCacheKey(query) ==
  SortStable(query, [i \in 1..Len(query) |-> KeyRank(query[i][1])])

\* The age of a cache entry, as far as the code tells ages apart: below 5
\* minutes (0), from 5 to 30 minutes (1), above 30 minutes (2).
AgeClasses == 0..2

\* Variant: an entry counts as fresh up to 30 minutes.
isCacheValidHalfHour(cacheEntry) == cacheEntry.age <= 1

isCacheValid(cacheEntry) == cacheEntry.age = 0

CacheHas(cache, key) == \E i \in 1..Len(cache) : cache[i].key = key

CacheGet(cache, key) == cache[CHOOSE i \in 1..Len(cache) : cache[i].key = key]

\* Map.set: an existing key keeps its place, a new key goes to the end.
CacheSet(cache, entry) ==
  IF CacheHas(cache, entry.key)
    THEN [i \in 1..Len(cache) |-> IF cache[i].key = entry.key THEN entry ELSE cache[i]]
    ELSE Append(cache, entry)

cacheSearchResults(cache, cacheKey, results) ==
  CacheSet(cache, [key |-> cacheKey, results |-> results, age |-> 0])

\* DiscoveryProtocol.initialize.
initializeDiscovery ==
  /\ ~discoveryReady
  /\ discoveryReady' = TRUE
  /\ UNCHANGED <<topoVars, fsp, routerVars, envVars, asyncVars, lastCall, connection,
                 discoveryCache, discoveryStats, lastSearch>>

\* The iteration order of the registry is the order of registration: the
\* names in alphabetical order, or in the reverse of it.
RegistryOrders ==
  LET names == <<"A", "B", "C", "D">>
      up == SelectSeq(names, LAMBDA n : n \in DOMAIN meshNodes)
  IN {up, [i \in 1..Len(up) |-> up[Len(up) + 1 - i]]}

Called(query, options, threw, cached, results) ==
  [query |-> query, called |-> TRUE, threw |-> threw, cached |-> cached,
   sorted |-> options.sortBy # Null, results |-> results]

\* searchNodes(query, options): throws before initialize; a valid cache
\* entry under the query's key is answered through filterResults; else a
\* fresh search is made, cached and counted.
searchNodes(query, options) ==
  /\ discoveryStats.cacheHits + discoveryStats.cacheMisses < MaxSearches
  /\ IF ~discoveryReady
       THEN /\ lastSearch' = Called(query, options, TRUE, FALSE, <<>>)
            /\ UNCHANGED <<discoveryCache, discoveryStats>>
       ELSE LET cacheKey == generateCacheKey(query)
            IN IF CacheHas(discoveryCache, cacheKey)
                    /\ isCacheValid(CacheGet(discoveryCache, cacheKey))
                 THEN /\ discoveryStats' = [discoveryStats EXCEPT !.cacheHits = @ + 1]
                      /\ lastSearch' =
                           Called(query, options, FALSE, TRUE,
                                  filterResults(CacheGet(discoveryCache, cacheKey).results,
                                                query, options))
                      /\ UNCHANGED discoveryCache
                 ELSE \E order \in RegistryOrders :
                        LET results == performNodeSearch(order, query, options)
                        IN /\ discoveryCache' =
                                cacheSearchResults(discoveryCache, cacheKey, results)
                           /\ discoveryStats' =
                                [discoveryStats EXCEPT !.cacheMisses = @ + 1,
                                                       !.searchesPerformed = @ + 1]
                           /\ lastSearch' = Called(query, options, FALSE, FALSE, results)
  /\ UNCHANGED <<topoVars, fsp, routerVars, envVars, asyncVars, lastCall, connection, discoveryReady>>

\* Time passes: entries grow older, none overtakes another.
timePasses ==
  /\ \E ages \in [1..Len(discoveryCache) -> AgeClasses] :
       /\ \A i \in 1..Len(discoveryCache) : ages[i] >= discoveryCache[i].age
       /\ \E i \in 1..Len(discoveryCache) : ages[i] > discoveryCache[i].age
       /\ \A i, j \in 1..Len(discoveryCache) :
            discoveryCache[i].age >= discoveryCache[j].age => ages[i] >= ages[j]
       /\ discoveryCache' = [i \in 1..Len(discoveryCache) |->
                               [discoveryCache[i] EXCEPT !.age = ages[i]]]
  /\ UNCHANGED <<topoVars, fsp, routerVars, envVars, asyncVars, lastCall, connection,
                 discoveryStats, discoveryReady, lastSearch>>

\* cleanupDiscoveryCache: drops the entries older than 30 minutes.
cleanupDiscoveryCache ==
  /\ discoveryReady
  /\ \E i \in 1..Len(discoveryCache) : discoveryCache[i].age = 2
  /\ discoveryCache' = SelectSeq(discoveryCache, LAMBDA e : e.age # 2)
  /\ UNCHANGED <<topoVars, fsp, routerVars, envVars, asyncVars, lastCall, connection,
                 discoveryStats, discoveryReady, lastSearch>>

TypeQuery(t) == <<<<"type", t>>>>

Queries ==
  {TypeQuery("gateway"), TypeQuery("relay"),
   <<<<"type", "gateway">>, <<"status", "active">>>>,
   <<<<"status", "active">>, <<"type", "gateway">>>>}

NoOptions ==
  [limit |-> 0, sortBy |-> Null, excludeTypes |-> {}, minConnections |-> 0,
   maxConnections |-> 0]

OptionSets ==
  {NoOptions,
   [NoOptions EXCEPT !.limit = 1],
   [NoOptions EXCEPT !.sortBy = "name"]}

InitDiscovery ==
  /\ meshNodes = [n \in StatNames |-> NodeRecord(n, TRUE)]
  /\ tmNodes = <<>>
  /\ topologyGraph = EmptyFn
  /\ connections = <<>>
  /\ totalConnections = 0
  /\ lastOp = NoOp
  /\ fsp = FspIdle
  /\ RouterIdle

NextDiscovery ==
  \/ initializeDiscovery
  \/ \E q \in Queries, o \in OptionSets : searchNodes(q, o)
  \/ timePasses
  \/ cleanupDiscoveryCache
  \/ \E n \in StatNames, st \in {"active", "inactive"} : EnvChange(SetStatus(n, st))
  \/ \E n \in StatNames : EnvChange(UnregisterNode(n))

SpecDiscovery == InitDiscovery /\ [][NextDiscovery]_vars

\* The key of a node's snapshot in the discovery cache: the node's id. It
\* shares the Map with the query keys, which are JSON texts.
NodeKey(n) == <<<<"nodeId", IdOf(n)>>>>

\* announceNode, as far as the cache goes: updateDiscoveryCache stores the
\* node under its id, with the time of the call.
announceNode(n) ==
  /\ n \in DOMAIN meshNodes
  /\ discoveryCache' = CacheSet(discoveryCache, [key |-> NodeKey(n), node |-> n, age |-> 0])
  /\ UNCHANGED <<topoVars, fsp, routerVars, envVars, asyncVars, lastCall, connection,
                 discoveryStats, discoveryReady, lastSearch>>

\* getCachedNodeInfo(nodeId): the node of a valid entry, or null.
getCachedNodeInfo(n) ==
  /\ lastCall' = [op |-> "getCachedNodeInfo", id |-> IdOf(n), threw |-> FALSE,
                  node |-> IF CacheHas(discoveryCache, NodeKey(n))
                                /\ isCacheValid(CacheGet(discoveryCache, NodeKey(n)))
                             THEN CacheGet(discoveryCache, NodeKey(n)).node
                             ELSE Null]
  /\ UNCHANGED <<topoVars, fsp, routerVars, envVars, asyncVars, discoveryVars, connection>>

NextSnapshot ==
  \/ initializeDiscovery
  \/ \E n \in StatNames : announceNode(n)
  \/ \E n \in StatNames : getCachedNodeInfo(n)
  \/ timePasses
  \/ cleanupDiscoveryCache

SpecSnapshot == InitDiscovery /\ [][NextSnapshot]_vars

\* announceNodeDeparture(node), as far as the cache goes: the entry under
\* the node's id is deleted; the entries under query keys are left alone.
announceNodeDeparture(n) ==
  /\ CacheHas(discoveryCache, NodeKey(n))
  /\ discoveryCache' = SelectSeq(discoveryCache, LAMBDA e : e.key # NodeKey(n))
  /\ lastCall' = [op |-> "announceNodeDeparture", id |-> IdOf(n), threw |-> FALSE]
  /\ UNCHANGED <<topoVars, fsp, routerVars, envVars, asyncVars, connection,
                 discoveryStats, discoveryReady, lastSearch>>

\* Searches while nodes are announced, leave the registry and have their
\* departure announced.
NextDeparture ==
  \/ initializeDiscovery
  \/ \E o \in OptionSets : searchNodes(TypeQuery("gateway"), o)
  \/ timePasses
  \/ \E n \in {"A", "D"} : announceNode(n)
  \/ \E n \in {"A", "D"} : announceNodeDeparture(n)
  \/ \E n \in {"A", "D"} : EnvChange(UnregisterNode(n))

SpecDeparture == InitDiscovery /\ [][NextDeparture]_vars

\* Searches with post-filter options.
FilterQueries == {<<<<"status", "active">>>>, TypeQuery("gateway")}

FilterOptionSets ==
  {[NoOptions EXCEPT !.excludeTypes = {"relay"}],
   [NoOptions EXCEPT !.minConnections = 5],
   [NoOptions EXCEPT !.maxConnections = 5],
   [NoOptions EXCEPT !.sortBy = "name"]}

NextFilter ==
  \/ initializeDiscovery
  \/ \E q \in FilterQueries, o \in FilterOptionSets : searchNodes(q, o)
  \/ timePasses
  \/ cleanupDiscoveryCache

SpecFilter == InitDiscovery /\ [][NextFilter]_vars

\* Searches by capability.
CapabilityQueries ==
  {<<<<"capability", "relay">>>>, <<<<"capability", "bridge">>>>,
   <<<<"capability", "relay">>, <<"type", "gateway">>>>}

NextCapability ==
  \/ initializeDiscovery
  \/ \E q \in CapabilityQueries, o \in OptionSets : searchNodes(q, o)
  \/ timePasses
  \/ cleanupDiscoveryCache

SpecCapability == InitDiscovery /\ [][NextCapability]_vars

\* ------------------------------------------------------------------------
\* Claims about discovery
\* ------------------------------------------------------------------------
Results == lastSearch.results

\* C15: a search for {type: t} returns only nodes of type t, and without a
\* sortBy option the list is in non-increasing order of relevance, whether
\* it was computed fresh or served from the query cache.
C15_TypeSearchExactAndRanked ==
  \A t \in {"gateway", "relay"} :
    (lastSearch.called /\ ~lastSearch.threw /\ lastSearch.query = TypeQuery(t)) =>
      /\ \A i \in 1..Len(Results) : Results[i].type = t
      /\ ~lastSearch.sorted =>
           \A i \in 1..Len(Results), j \in 1..Len(Results) :
             i < j => Results[i].relevance >= Results[j].relevance

\* C15 witness: a search for gateways was answered from the cache with two
\* or more nodes of different relevance.
C15_Witness ==
  /\ lastSearch.called
  /\ lastSearch.cached
  /\ ~lastSearch.sorted
  /\ lastSearch.query = TypeQuery("gateway")
  /\ Len(Results) >= 2
  /\ Results[1].relevance > Results[Len(Results)].relevance

\* ------------------------------------------------------------------------
\* Asynchronous execution: removeNode and the queue processors, one
\* suspension point (await) at a time
\* ------------------------------------------------------------------------
\* removeNode(n) from its call to its first await: the ids are collected
\* and the first removeConnection runs. Without connections to remove the
\* call never suspends and deletes the node at once.
removeNodeEnter(n) ==
  LET ids == ConnectionsToRemove(connections, n)
      r == RemoveConnectionOp(connections, topologyGraph, Head(ids))
  IN /\ removal.pc = "idle"
     /\ ~halted
     /\ IF ids = <<>>
          THEN /\ tmNodes' = KeyDelete(tmNodes, n)
               /\ topologyGraph' = GraphDelete(topologyGraph, n)
               /\ lastOp' = [op |-> "removeNode", node |-> n, removed |-> 0]
               /\ UNCHANGED <<connections, totalConnections, removal>>
          ELSE /\ connections' = r.connections
               /\ topologyGraph' = r.graph
               /\ totalConnections' = Len(r.connections)
               /\ removal' = [pc |-> "await", node |-> n, ids |-> Tail(ids), removed |-> 1]
               /\ lastOp' = NoOp
               /\ UNCHANGED tmNodes
     /\ UNCHANGED <<meshNodes, fsp, routerVars, envVars, inFlight, discoveryVars, lastCall, connection>>

\* removeNode resumed after an await: the next removeConnection, or, after
\* the last one, the deletion of the node from the node map and the graph.
removeNodeResume ==
  LET r == RemoveConnectionOp(connections, topologyGraph, Head(removal.ids))
  IN /\ removal.pc = "await"
     /\ ~halted
     /\ IF removal.ids # <<>>
          THEN /\ connections' = r.connections
               /\ topologyGraph' = r.graph
               /\ totalConnections' = IF Head(removal.ids) \in ConnIdsOf(connections)
                                        THEN Len(r.connections) ELSE totalConnections
               /\ removal' = [removal EXCEPT !.ids = Tail(removal.ids),
                                             !.removed = removal.removed + 1]
               /\ lastOp' = NoOp
               /\ UNCHANGED tmNodes
          ELSE /\ tmNodes' = KeyDelete(tmNodes, removal.node)
               /\ topologyGraph' = GraphDelete(topologyGraph, removal.node)
               /\ lastOp' = [op |-> "removeNode", node |-> removal.node,
                             removed |-> removal.removed]
               /\ removal' = NoRemoval
               /\ UNCHANGED <<connections, totalConnections>>
     /\ UNCHANGED <<meshNodes, fsp, routerVars, envVars, inFlight, discoveryVars, lastCall, connection>>

\* processMessage(Head(batch)) from its call to its first await: the two
\* registry checks throw at once; otherwise determineRoutingPath has run.
processMessageEnter(batch, k) ==
  LET m == Head(batch)
      rp == determineRoutingPath(m, k)
  IN IF ~Registered(m.targetNode)
       THEN [NoRouting EXCEPT !.pc = "next", !.batch = batch, !.error = "TargetNotFound"]
       ELSE IF ~Registered(m.sourceNode)
         THEN [NoRouting EXCEPT !.pc = "next", !.batch = batch, !.error = "SourceNotFound"]
         ELSE IF rp.kind = "halt"
           THEN [NoRouting EXCEPT !.pc = "halt"]
           ELSE [NoRouting EXCEPT !.pc = "path", !.batch = batch, !.rp = rp]

\* processMessageQueue from the timer to its first await.
processMessageQueueEnter ==
  /\ isInitialized /\ ~halted
  /\ inFlight.pc = "idle"
  /\ messageQueue # <<>>
  /\ \E k \in 0..1 :
       \E next \in {processMessageEnter(Take(messageQueue, IntakeBatch), k)} :
         /\ halted' = (next.pc = "halt")
         /\ inFlight' = IF next.pc = "halt" THEN NoRouting ELSE next
  /\ messageQueue' = Drop(messageQueue, IntakeBatch)
  /\ UNCHANGED <<topoVars, fsp, deliveryQueue, failedMessages, routingStats, isInitialized,
                 inbox, envVars, removal, discoveryVars, lastCall, connection>>

\* processMessage resumed with the routing path: enqueue the delivery task,
\* or throw when there is no path.
processMessageResume ==
  /\ inFlight.pc = "path"
  /\ ~halted
  /\ IF inFlight.rp.kind = "path"
       THEN /\ deliveryQueue' = Append(deliveryQueue,
                                       [message |-> Head(inFlight.batch),
                                        routingPath |-> inFlight.rp.path,
                                        currentHop |-> 0, status |-> "pending"])
            /\ inFlight' = [inFlight EXCEPT !.pc = "next"]
       ELSE /\ inFlight' = [inFlight EXCEPT !.pc = "next", !.error = "NoRoute"]
            /\ UNCHANGED deliveryQueue
  /\ UNCHANGED <<topoVars, fsp, messageQueue, failedMessages, routingStats, isInitialized,
                 halted, inbox, envVars, removal, discoveryVars, lastCall, connection>>

\* processMessageQueue resumed after one message: the catch, then the next
\* message of the batch up to its first await.
processMessageQueueResume ==
  /\ inFlight.pc = "next"
  /\ ~halted
  /\ \E k \in 0..1 :
       \E R \in {IF inFlight.error # Null
                   THEN handleMessageFailure(RouterState, Head(inFlight.batch),
                                             inFlight.error)
                   ELSE RouterState},
          next \in {IF Tail(inFlight.batch) = <<>>
                      THEN NoRouting
                      ELSE processMessageEnter(Tail(inFlight.batch), k)} :
         /\ SetRouter([R EXCEPT !.halted = (next.pc = "halt")])
         /\ inFlight' = IF next.pc = "halt" THEN NoRouting ELSE next
  /\ UNCHANGED <<topoVars, fsp, isInitialized, accepting, envChanges, retries, removal,
                 discoveryVars, lastCall, connection>>

\* The tasks that reach the forwarding check of processDeliveryTask.
NeedsForwardingCheck(task) ==
  /\ task.status = "pending"
  /\ task.currentHop < Len(task.routingPath) - 1
  /\ ~(Len(task.routingPath) = 2 /\ task.currentHop = 0)

\* processDeliveryQueue over the batch up to the first task that awaits
\* canRouteThroughNode; the answer `ok` was computed before the await.
RECURSIVE DeliverUntilCheck(_, _, _)
DeliverUntilCheck(R, batch, k) ==
  IF batch = <<>> \/ R.halted
    THEN [R |-> R, flight |-> NoRouting]
    ELSE IF NeedsForwardingCheck(Head(batch))
      THEN [R |-> R,
            flight |-> [NoRouting EXCEPT
                          !.pc = "checked", !.batch = batch,
                          !.ok = canRouteThroughNode(
                                   Head(batch).routingPath[Head(batch).currentHop + 1],
                                   Head(batch).routingPath[Head(batch).currentHop + 2])]]
      ELSE LET r == processDeliveryTask(R, Head(batch), k)
           IN DeliverUntilCheck(r.R, Tail(batch), r.k)

processDeliveryQueueEnter ==
  /\ isInitialized /\ ~halted
  /\ inFlight.pc = "idle"
  /\ deliveryQueue # <<>>
  /\ \E k \in 0..1 :
       \E r \in {DeliverUntilCheck(
                   [RouterState EXCEPT !.dq = Drop(deliveryQueue, DeliveryBatch)],
                   Take(deliveryQueue, DeliveryBatch), k)} :
         /\ SetRouter(r.R)
         /\ inFlight' = r.flight
  /\ UNCHANGED <<topoVars, fsp, isInitialized, accepting, envChanges, retries, removal,
                 discoveryVars, lastCall, connection>>

\* processDeliveryTask resumed with the answer of canRouteThroughNode.
processDeliveryTaskResume ==
  /\ inFlight.pc = "checked"
  /\ ~halted
  /\ \E k \in 0..1 :
       \E r1 \in {AfterForwardingCheck(RouterState, Head(inFlight.batch), k, inFlight.ok)} :
         \E r \in {DeliverUntilCheck(r1.R, Tail(inFlight.batch), r1.k)} :
           /\ SetRouter(r.R)
           /\ inFlight' = r.flight
  /\ UNCHANGED <<topoVars, fsp, isInitialized, accepting, envChanges, retries, removal,
                 discoveryVars, lastCall, connection>>

\* Three registered nodes in the topology, joined by the given edges.
InitAsync ==
  /\ meshNodes = [n \in Names |-> NodeRecord(n, TRUE)]
  /\ tmNodes = <<"A", "B", "C">>
  /\ \E e \in EdgeSets :
       /\ Cardinality(e) = MaxConnections
       /\ topologyGraph = GraphOver(Names, e)
       /\ connections = ConnsOver(Names, e)
  /\ totalConnections = Len(connections)
  /\ lastOp = NoOp
  /\ fsp = FspIdle
  /\ RouterIdle

NextAsync ==
  \/ initialize
  \/ \E id \in MsgIds, src \in MsgSources, tgt \in MsgTargets : routeMessage(id, src, tgt)
  \/ processMessageQueueEnter
  \/ processMessageResume
  \/ processMessageQueueResume
  \/ processDeliveryQueueEnter
  \/ processDeliveryTaskResume
  \/ \E n \in Names : removeNodeEnter(n)
  \/ removeNodeResume
  \/ \E id \in ConnIds : TopoStep(removeConnection(id))

SpecAsync == InitAsync /\ [][NextAsync]_vars

\* The queue processors, one suspension point at a time, with shutdown.
NextShutdown ==
  \/ initialize
  \/ \E id \in MsgIds, src \in MsgSources, tgt \in MsgTargets : routeMessage(id, src, tgt)
  \/ processMessageQueueEnter
  \/ processMessageResume
  \/ processMessageQueueResume
  \/ processDeliveryQueueEnter
  \/ processDeliveryTaskResume
  \/ shutdown

SpecShutdown == InitAsync /\ [][NextShutdown]_vars

\* ------------------------------------------------------------------------
\* Claims about interleaving
\* ------------------------------------------------------------------------
\* A removeNode is suspended with its work half done: some of the node's
\* connections are still there, or all are gone and the node is still in
\* the node map or the graph.
HalfApplied ==
  /\ removal.pc = "await"
  /\ \/ ConnectionsToRemove(connections, removal.node) # <<>>
     \/ removal.node \in SeqToSet(tmNodes)
     \/ GraphHas(topologyGraph, removal.node)

\* A step that reads the topology for a routing decision: path resolution,
\* the forwarding check, or the search for an alternative path.
ReadsTopology ==
  /\ inFlight' # inFlight
  /\ \/ inFlight'.pc \in {"path", "checked"}
     \/ inFlight.pc = "checked" /\ ~inFlight.ok

\* C18: no routing step that reads the topology runs while a removeNode is
\* suspended with only part of its removals applied.
C18_RemoveNodeAtomicForReaders == [][ReadsTopology => ~HalfApplied]_vars

TopologyOf == <<meshNodes, tmNodes, topologyGraph, connections>>

\* C19: no node or connection add or remove takes effect between the path
\* resolution and the enqueue of the delivery task, or between the
\* forwarding check and the forward.
C19_OneDecisionOneTopology ==
  [][TopologyOf' # TopologyOf => inFlight.pc \notin {"path", "checked"}]_vars

\* ------------------------------------------------------------------------
\* Claims about path resolution and delivery
\* ------------------------------------------------------------------------
\* The names joined to the names of `seen` by a chain of stored connections.
RECURSIVE LinkedTo(_)
LinkedTo(seen) ==
  LET more == {c.targetNode : c \in {x \in SeqToSet(connections) : x.sourceNode \in seen}}
                \cup {c.sourceNode : c \in {x \in SeqToSet(connections) : x.targetNode \in seen}}
  IN IF more \subseteq seen THEN seen ELSE LinkedTo(seen \cup more)

ChainLinked(m) == m.targetNode \in LinkedTo({m.sourceNode})

IntakeBatchNow == Take(messageQueue, IntakeBatch)

\* C21: for a message between two registered nodes, the intake pass ends
\* with 'no route' only if no chain of stored connections joins source and
\* target; when one does, the pass terminates and a delivery task with
\* currentHop 0 and status pending is enqueued for the message.
C21_RouteFoundWheneverLinked ==
  [][processMessageQueue =>
       \A i \in 1..Len(IntakeBatchNow) :
         \A m \in {IntakeBatchNow[i]} :
           (~UnknownNode(m) /\ ChainLinked(m)) =>
             /\ ~halted'
             /\ \E j \in 1..Len(deliveryQueue') :
                  /\ deliveryQueue'[j].message.uid = m.uid
                  /\ deliveryQueue'[j].currentHop = 0
                  /\ deliveryQueue'[j].status = "pending"]_vars

\* Every delivery task the router has made: those in the delivery queue and
\* those a delivery pass took out and did not put back.
TasksMade == SeqToSet(deliveryQueue) \cup released

WellFormedTask(task) ==
  /\ task.routingPath # <<>>
  /\ task.routingPath[1] = task.message.sourceNode
  /\ task.routingPath[Len(task.routingPath)] = task.message.targetNode
  /\ task.currentHop \in 0..(Len(task.routingPath) - 1)

AdvancedNow == {task \in released' \ released : task.currentHop > 0}

\* What the forwarding check asks of the hop the cursor stood on.
HopMayForward(n, next) ==
  /\ n \in DOMAIN meshNodes
  /\ meshNodes[n].status = "active"
  /\ meshNodes[n].routing
  /\ \E i \in 1..Len(connections) :
       \/ connections[i].sourceNode = n /\ connections[i].targetNode = next
       \/ connections[i].sourceNode = next /\ connections[i].targetNode = n

\* C23: on a path of three or more nodes the cursor advances from a hop to
\* the next only if the hop is registered, active, has the routing
\* capability and has a connection to the next hop; in every other case the
\* cursor stays where it was.
C23_AdvanceOnlyThroughRoutingNode ==
  [][\A task \in AdvancedNow :
       /\ Len(task.routingPath) >= 3
       /\ HopMayForward(task.routingPath[task.currentHop],
                        task.routingPath[task.currentHop + 1])]_vars

\* C23 witness: a task was advanced, and another task of three nodes stands
\* in the delivery queue on a hop that may not forward.
C23_Witness ==
  /\ \E task \in released : task.currentHop = 1
  /\ \E i \in 1..Len(deliveryQueue) :
       /\ Len(deliveryQueue[i].routingPath) = 3
       /\ ~HopMayForward(deliveryQueue[i].routingPath[1], deliveryQueue[i].routingPath[2])

\* message.forwardCount || 0 and message.forwardPath || [], read off an
\* envelope. The envelope of routeMessage carries neither field, and
\* forwardMessage writes them to a copy it hands to the network, never to
\* the envelope the delivery task holds.
ForwardCount(m) == IF "forwardCount" \in DOMAIN m THEN m.forwardCount ELSE 0

ForwardPath(m) == IF "forwardPath" \in DOMAIN m THEN m.forwardPath ELSE <<>>

\* C24: every successful forward is recorded on the envelope the delivery
\* task holds: after k forwards its forwardCount is k and its forwardPath
\* lists the k hops it was forwarded from, in order.
C24_ForwardsRecordedOnEnvelope ==
  \A task \in released :
    /\ ForwardCount(task.message) = task.currentHop
    /\ ForwardPath(task.message) = SubSeq(task.routingPath, 1, task.currentHop)

\* ------------------------------------------------------------------------
\* The two queues under load: more envelopes wait than one tick takes
\* ------------------------------------------------------------------------
\* Envelopes waiting in the intake queue at the start.
BatchLoad == 6

\* The intake queue after BatchLoad calls of routeMessage: the second
\* envelope is for C, every other one for B.
LoadedQueue ==
  [i \in 1..BatchLoad |->
     [uid |-> i, id |-> IF i % 2 = 1 THEN "m1" ELSE "m2",
      sourceNode |-> "A", targetNode |-> IF i = 2 THEN "C" ELSE "B",
      routingAttempts |-> 0, intakeFails |-> 0]]

InitBatch ==
  /\ meshNodes = [n \in Names |-> NodeRecord(n, TRUE)]
  /\ tmNodes = <<"A", "B", "C">>
  /\ topologyGraph = GraphOver(Names, {{"A", "B"}, {"B", "C"}})
  /\ connections = <<[id |-> 1, sourceNode |-> "A", targetNode |-> "B"],
                     [id |-> 2, sourceNode |-> "B", targetNode |-> "C"]>>
  /\ totalConnections = 2
  /\ lastOp = NoOp
  /\ fsp = FspIdle
  /\ messageQueue = LoadedQueue
  /\ deliveryQueue = <<>>
  /\ failedMessages = <<>>
  /\ routingStats = [messagesRouted |-> BatchLoad, messagesDelivered |-> 0, messagesFailed |-> 0]
  /\ isInitialized = TRUE
  /\ halted = FALSE
  /\ inbox = <<>>
  /\ accepting = Names
  /\ envChanges = 0
  /\ retries = 0
  /\ released = {}
  /\ removal = NoRemoval
  /\ inFlight = NoRouting
  /\ discoveryCache = <<>>
  /\ discoveryStats = [searchesPerformed |-> 0, cacheHits |-> 0, cacheMisses |-> 0]
  /\ discoveryReady = FALSE
  /\ lastSearch = NoSearch
  /\ lastCall = NoCall
  /\ connection = NewConnection("A", "B")

NextBatch ==
  \/ processMessageQueue
  \/ processDeliveryQueue
  \/ \E n \in Names : SetAccepting(n)
  \/ \E n \in Names : EnvChange(UnregisterNode(n))

SpecBatch == InitBatch /\ [][NextBatch]_vars

\* The first n entries of a queue, and what stands behind them.
Oldest(q, n) == [i \in 1..(IF Len(q) < n THEN Len(q) ELSE n) |-> q[i]]

Behind(q, n) == [i \in 1..(IF Len(q) < n THEN 0 ELSE Len(q) - n) |-> q[i + n]]

UidsIn(q) == {q[i].uid : i \in 1..Len(q)}

\* The entries of the queue after the step that are behind position n.
NewTail(q, n) == [i \in 1..(Len(q) - n) |-> q[i + n]]

\* One intake tick, seen from outside: the entries behind the fifth keep
\* their places at the head of the queue and are untouched; what is behind
\* them afterwards are envelopes of the batch, each with one attempt more
\* than it had; every new delivery task and every new archive entry is for
\* an envelope of the batch; and the batch has as many outcomes as it has
\* envelopes, so none was processed twice.
IntakeTickInBatches ==
  LET batch == Oldest(messageQueue, IntakeBatch)
      rest == Behind(messageQueue, IntakeBatch)
  IN /\ Len(batch) <= 5
     /\ Len(messageQueue') >= Len(rest)
     /\ Oldest(messageQueue', Len(rest)) = rest
     /\ \A e \in SeqToSet(NewTail(messageQueue', Len(rest))) :
          \E i \in 1..Len(batch) :
            /\ e.uid = batch[i].uid
            /\ e.routingAttempts = batch[i].routingAttempts + 1
     /\ Oldest(deliveryQueue', Len(deliveryQueue)) = deliveryQueue
     /\ UidsIn([i \in 1..(Len(deliveryQueue') - Len(deliveryQueue)) |->
               deliveryQueue'[i + Len(deliveryQueue)].message]) \subseteq UidsIn(batch)
     /\ Oldest(failedMessages', Len(failedMessages)) = failedMessages
     /\ UidsIn([i \in 1..(Len(failedMessages') - Len(failedMessages)) |->
               failedMessages'[i + Len(failedMessages)].message]) \subseteq UidsIn(batch)
     /\ (Len(messageQueue') - Len(rest)) + (Len(deliveryQueue') - Len(deliveryQueue))
          + (Len(failedMessages') - Len(failedMessages)) <= Len(batch)
     /\ ~halted' =>
          (Len(messageQueue') - Len(rest)) + (Len(deliveryQueue') - Len(deliveryQueue))
            + (Len(failedMessages') - Len(failedMessages)) = Len(batch)

\* One delivery tick, in the same way, with batches of three.
DeliveryTickInBatches ==
  LET batch == Oldest(deliveryQueue, DeliveryBatch)
      rest == Behind(deliveryQueue, DeliveryBatch)
      batchUids == {batch[i].message.uid : i \in 1..Len(batch)}
  IN /\ Len(batch) <= 3
     /\ Len(deliveryQueue') >= Len(rest)
     /\ Oldest(deliveryQueue', Len(rest)) = rest
     /\ \A t \in SeqToSet(NewTail(deliveryQueue', Len(rest))) :
          \E i \in 1..Len(batch) :
            /\ t.message.uid = batch[i].message.uid
            /\ t.message.routingAttempts = batch[i].message.routingAttempts + 1
     /\ {t.message.uid : t \in released' \ released} \subseteq batchUids
     /\ Oldest(failedMessages', Len(failedMessages)) = failedMessages
     /\ UidsIn([i \in 1..(Len(failedMessages') - Len(failedMessages)) |->
               failedMessages'[i + Len(failedMessages)].message]) \subseteq batchUids
     /\ messageQueue' = messageQueue
     /\ (Len(deliveryQueue') - Len(rest)) + Cardinality(released' \ released)
          + (Len(failedMessages') - Len(failedMessages)) <= Len(batch)
     /\ ~halted' =>
          (Len(deliveryQueue') - Len(rest)) + Cardinality(released' \ released)
            + (Len(failedMessages') - Len(failedMessages)) = Len(batch)

\* C25: an intake tick takes at most 5 envelopes and a delivery tick at
\* most 3 tasks, the oldest of the queue; what a tick re-enqueues for a
\* retry goes behind the entries it did not take and is not processed a
\* second time in that tick.
C25_TicksTakeOldestInBatches ==
  [][/\ processMessageQueue => IntakeTickInBatches
     /\ processDeliveryQueue => DeliveryTickInBatches]_vars

\* C25 witness: both queues were longer than a batch and both ticks have
\* re-enqueued: an untouched entry stands at the head of each queue with a
\* retried one behind it.
C25_Witness ==
  /\ Len(messageQueue) >= 2
  /\ messageQueue[1].routingAttempts = 0
  /\ messageQueue[Len(messageQueue)].routingAttempts = 1
  /\ Len(deliveryQueue) >= 4
  /\ deliveryQueue[1].message.routingAttempts = 0
  /\ deliveryQueue[Len(deliveryQueue)].message.routingAttempts = 1

\* ------------------------------------------------------------------------
\* Claims about the router's interface
\* ------------------------------------------------------------------------
\* The step is a call routeMessage(id, src, tgt), whatever its outcome.
RouteMessageCalled(id, src, tgt) ==
  routeMessage(id, src, tgt) \/ routeMessageRejected(id, src, tgt)

\* C26: routeMessage on an initialized router appends one envelope with
\* routingAttempts 0 and a limit of 3 attempts to the intake queue and adds
\* 1 to messagesRouted, and leaves the delivery queue and the archive as
\* they were; on a router that is not initialized it throws and changes no
\* queue and no counter.
C26_RouteMessageEnqueuesOrThrows ==
  [][\A id \in MsgIds, src \in MsgSources, tgt \in MsgTargets :
       RouteMessageCalled(id, src, tgt) =>
         IF isInitialized
           THEN /\ ~lastCall'.threw
                /\ Len(messageQueue') = Len(messageQueue) + 1
                /\ Oldest(messageQueue', Len(messageQueue)) = messageQueue
                /\ messageQueue'[Len(messageQueue')].id = id
                /\ messageQueue'[Len(messageQueue')].sourceNode = src
                /\ messageQueue'[Len(messageQueue')].targetNode = tgt
                /\ messageQueue'[Len(messageQueue')].routingAttempts = 0
                /\ MaxRoutingAttempts = 3
                /\ routingStats'.messagesRouted = routingStats.messagesRouted + 1
                /\ routingStats'.messagesDelivered = routingStats.messagesDelivered
                /\ routingStats'.messagesFailed = routingStats.messagesFailed
                /\ deliveryQueue' = deliveryQueue
                /\ failedMessages' = failedMessages
           ELSE /\ lastCall'.threw
                /\ messageQueue' = messageQueue
                /\ deliveryQueue' = deliveryQueue
                /\ failedMessages' = failedMessages
                /\ routingStats' = routingStats]_vars

\* C26 witness: envelopes were accepted, the router was shut down, and the
\* call made after that threw.
C26_Witness ==
  /\ routingStats.messagesRouted >= 1
  /\ ~isInitialized
  /\ lastCall.op = "routeMessage"
  /\ lastCall.threw

\* The step is a call retryFailedMessage(id), whatever its outcome.
RetryCalled(id) == retryFailedMessage(id) \/ retryFailedMessageRejected(id)

\* The archive without its entry at position i.
WithoutEntry(archive, i) ==
  [j \in 1..(Len(archive) - 1) |-> IF j < i THEN archive[j] ELSE archive[j + 1]]

\* C27: retryFailedMessage(id) for an id in the archive takes exactly that
\* entry out, sets the envelope's attempt counter to 0 and appends it to the
\* intake queue; for an id that is not in the archive it throws and leaves
\* archive, queues and counters as they were.
C27_RetryMovesEntryOrThrows ==
  [][\A id \in MsgIds :
       RetryCalled(id) =>
         IF \E i \in 1..Len(failedMessages) : failedMessages[i].message.id = id
           THEN /\ ~lastCall'.threw
                /\ \E i \in 1..Len(failedMessages) :
                     /\ failedMessages[i].message.id = id
                     /\ failedMessages' = WithoutEntry(failedMessages, i)
                     /\ Len(messageQueue') = Len(messageQueue) + 1
                     /\ Oldest(messageQueue', Len(messageQueue)) = messageQueue
                     /\ messageQueue'[Len(messageQueue')].uid = failedMessages[i].message.uid
                     /\ messageQueue'[Len(messageQueue')].routingAttempts = 0
                /\ deliveryQueue' = deliveryQueue
                /\ routingStats' = routingStats
           ELSE /\ lastCall'.threw
                /\ failedMessages' = failedMessages
                /\ messageQueue' = messageQueue
                /\ deliveryQueue' = deliveryQueue
                /\ routingStats' = routingStats]_vars

\* C27 witness: an archived envelope was retried, and a retry of an id the
\* archive does not hold has thrown.
C27_Witness ==
  /\ retries >= 1
  /\ lastCall.op = "retryFailedMessage"
  /\ lastCall.threw

\* ------------------------------------------------------------------------
\* Claims about the topology graph and the node map
\* ------------------------------------------------------------------------
\* C28: every key of the topology graph and every name in a neighbor set
\* is a node of the topology's node map.
C28_GraphOverNodeMap ==
  /\ DOMAIN topologyGraph \subseteq SeqToSet(tmNodes)
  /\ \A n \in DOMAIN topologyGraph : topologyGraph[n] \subseteq SeqToSet(tmNodes)

\* C29: a call of getNetworkBottlenecks that returns leaves every neighbor
\* set, the node map and the connection store as they were before the
\* call, whichever nodes it reports.
C29_BottlenecksLeaveTopology ==
  [][(reportBottlenecks /\ ~halted') =>
       /\ topologyGraph' = topologyGraph
       /\ tmNodes' = tmNodes
       /\ connections' = connections]_vars

\* C29 witness: a call has returned and has reported a node that has
\* neighbors.
C29_Witness ==
  /\ ~halted
  /\ lastOp.op = "getNetworkBottlenecks"
  /\ lastOp.result.kind = "list"
  /\ \E i \in 1..Len(lastOp.result.nodes) : topologyGraph[lastOp.result.nodes[i]] # {}

\* ------------------------------------------------------------------------
\* Claims about searches by capability
\* ------------------------------------------------------------------------
\* The node has the flag named c set to true.
FlagSet(n, c) ==
  \E i \in 1..Len(Capabilities(n)) :
    /\ Capabilities(n)[i][1] = c
    /\ Capabilities(n)[i][2].kind = "boolean"
    /\ Capabilities(n)[i][2].value

\* The node has a string-valued flag that contains c, letter case aside.
TextContains(n, c) ==
  \E i \in 1..Len(Capabilities(n)) :
    /\ Capabilities(n)[i][2].kind = "string"
    /\ includes(toLowerCase(Capabilities(n)[i][2].chars), toLowerCase(Chars(c)))

\* C30: a search for {capability: c} returns only nodes that have the flag
\* named c set to true or a string-valued flag containing c; a node whose
\* true flags are all others than c, without such a string, is not returned.
C30_CapabilitySearchByName ==
  \A c \in {"relay", "bridge"} :
    (lastSearch.called /\ ~lastSearch.threw /\ lastSearch.query = <<<<"capability", c>>>>) =>
      \A i \in 1..Len(Results) : FlagSet(Results[i].name, c) \/ TextContains(Results[i].name, c)

\* ------------------------------------------------------------------------
\* Claims about the options of a search
\* ------------------------------------------------------------------------
\* The list keeps to the post-filter options.
KeepsToOptions(results, options) ==
  /\ \A i \in 1..Len(results) :
       /\ results[i].type \notin options.excludeTypes
       /\ options.minConnections # 0 => results[i].connections >= options.minConnections
       /\ options.maxConnections # 0 => results[i].connections <= options.maxConnections
  /\ options.sortBy = "name" =>
       \A i \in 1..Len(results), j \in 1..Len(results) :
         i < j => NameRank(results[i].name) <= NameRank(results[j].name)

\* C31: the post-filter options are applied on every call of searchNodes,
\* fresh or from the cache: no returned node has an excluded type, every
\* returned node has at least minConnections and at most maxConnections
\* connections, and with sortBy the list is in the order of that key.
C31_OptionsAppliedOnEveryCall ==
  [][\A q \in FilterQueries, o \in FilterOptionSets :
       (discoveryReady /\ searchNodes(q, o)) => KeepsToOptions(lastSearch'.results, o)]_vars

\* ------------------------------------------------------------------------
\* Claims about the query cache
\* ------------------------------------------------------------------------
\* The fields of a query, whatever the order of its keys.
FieldsOf(query) == {query[i] : i \in 1..Len(query)}

\* The cache holds an entry for these fields that is under 5 minutes old.
FreshEntryFor(cache, query) ==
  \E i \in 1..Len(cache) : FieldsOf(cache[i].key) = FieldsOf(query) /\ cache[i].age = 0

\* The step is a call of searchNodes: only a call writes the counters and
\* the record of the last call.
SearchAnswered == discoveryStats' # discoveryStats \/ lastSearch' # lastSearch

\* C32: searchNodes counts a hit exactly when the cache holds an entry for
\* the query's fields that is under 5 minutes old, and then serves it;
\* otherwise it counts a miss, searches afresh and puts the new result in
\* the entry's place. Every call on an initialized index adds 1 to exactly
\* one of cacheHits and cacheMisses, and queries with the same fields in
\* another key order share one entry.
C32_HitOnlyUnderFiveMinutes ==
  [][\A q \in {lastSearch'.query} :
       (discoveryReady /\ SearchAnswered) =>
         /\ IF FreshEntryFor(discoveryCache, q)
              THEN /\ discoveryStats'.cacheHits = discoveryStats.cacheHits + 1
                   /\ discoveryStats'.cacheMisses = discoveryStats.cacheMisses
                   /\ lastSearch'.cached
                   /\ discoveryCache' = discoveryCache
              ELSE /\ discoveryStats'.cacheMisses = discoveryStats.cacheMisses + 1
                   /\ discoveryStats'.cacheHits = discoveryStats.cacheHits
                   /\ ~lastSearch'.cached
                   /\ \E i \in 1..Len(discoveryCache') :
                        /\ FieldsOf(discoveryCache'[i].key) = FieldsOf(q)
                        /\ discoveryCache'[i].age = 0
                        /\ discoveryCache'[i].results = lastSearch'.results
         /\ \A i \in 1..Len(discoveryCache'), j \in 1..Len(discoveryCache') :
              FieldsOf(discoveryCache'[i].key) = FieldsOf(discoveryCache'[j].key) => i = j]_vars

\* C32 witness: an entry that had expired was replaced by a fresh search,
\* and the query with its keys in the other order was then served from it.
C32_Witness ==
  /\ discoveryStats.cacheMisses = 2
  /\ discoveryStats.cacheHits = 1
  /\ lastSearch.cached
  /\ Len(discoveryCache) = 1
  /\ discoveryCache[1].key # lastSearch.query

\* The cache holds a snapshot of node n that is under 30 minutes old.
SnapshotUnderHalfHour(n) ==
  \E i \in 1..Len(discoveryCache) :
    discoveryCache[i].key = NodeKey(n) /\ discoveryCache[i].age <= 1

\* The step is a lookup of node n's snapshot.
LookedUp(n) ==
  /\ lastCall'.op = "getCachedNodeInfo"
  /\ lastCall'.id = IdOf(n)
  /\ lastCall' # lastCall

\* C33: a snapshot stored by a node announcement is returned by
\* getCachedNodeInfo at every age under 30 minutes; once it is older the
\* cleanup removes it and the lookup returns nothing.
C33_SnapshotKeptHalfAnHour ==
  [][\A n \in StatNames :
       /\ LookedUp(n) =>
            IF SnapshotUnderHalfHour(n) THEN lastCall'.node = n ELSE lastCall'.node = Null
       /\ cleanupDiscoveryCache =>
            \A i \in 1..Len(discoveryCache') : discoveryCache'[i].age <= 1]_vars

\* ------------------------------------------------------------------------
\* Connection: the life of one connection object
\* ------------------------------------------------------------------------
\* updateActivity calls followed.
MaxActivity == 3

establish ==
  /\ connection' = [connection EXCEPT !.status = "established"]
  /\ UNCHANGED <<topoVars, fsp, routerVars, envVars, asyncVars, discoveryVars, lastCall>>

updateActivity ==
  /\ connection.messageCount < MaxActivity
  /\ connection' = [connection EXCEPT !.messageCount = @ + 1]
  /\ UNCHANGED <<topoVars, fsp, routerVars, envVars, asyncVars, discoveryVars, lastCall>>

close ==
  /\ connection' = [connection EXCEPT !.status = "closed"]
  /\ UNCHANGED <<topoVars, fsp, routerVars, envVars, asyncVars, discoveryVars, lastCall>>

InitConnection ==
  /\ meshNodes = [n \in StatNames |-> NodeRecord(n, TRUE)]
  /\ tmNodes = <<>>
  /\ topologyGraph = EmptyFn
  /\ connections = <<>>
  /\ totalConnections = 0
  /\ lastOp = NoOp
  /\ fsp = FspIdle
  /\ RouterQuiet
  /\ \E a \in StatNames : \E b \in StatNames \ {a} : connection = NewConnection(a, b)

NextConnection ==
  \/ establish
  \/ updateActivity
  \/ close

SpecConnection == InitConnection /\ [][NextConnection]_vars

\* The place of a status in the life of a connection.
StatusRank(status) ==
  CASE status = "establishing" -> 1 [] status = "established" -> 2 [] status = "closed" -> 3

\* C34: the status of a Connection only moves forward through
\* establishing, established, closed; once closed it is never established
\* or establishing again, and its pair of endpoints never changes.
C34_StatusOnlyMovesForward ==
  [][/\ StatusRank(connection'.status) >= StatusRank(connection.status)
     /\ connection.status = "closed" => connection'.status = "closed"
     /\ connection'.sourceNode = connection.sourceNode
     /\ connection'.targetNode = connection.targetNode]_vars

\* ------------------------------------------------------------------------
\* Claims about the router's counters
\* ------------------------------------------------------------------------
\* C35: routingStats.messagesFailed equals the number of entries in the
\* failed archive in every reachable state of the router.
C35_FailedCounterIsArchiveSize == routingStats.messagesFailed = Len(failedMessages)

\* C36: every submitted envelope is counted at most once as delivered or
\* failed: messagesDelivered + messagesFailed is at most messagesRouted.
C36_CountedAtMostOnce ==
  routingStats.messagesDelivered + routingStats.messagesFailed <= routingStats.messagesRouted

\* ------------------------------------------------------------------------
\* Claims about deliveries
\* ------------------------------------------------------------------------
\* The task by which the envelope of an inbox entry was delivered.
DeliveredBy(entry) ==
  {task \in released : task.status = "delivered" /\ task.message.uid = entry.uid}

C38_OnlyRegisteredNodesReturned ==
  [][(discoveryReady /\ SearchAnswered) =>
       \A i \in 1..Len(lastSearch'.results) :
         lastSearch'.results[i].name \in DOMAIN meshNodes]_vars

\* The names of the nodes in a result list.
NamesIn(results) == {results[i].name : i \in 1..Len(results)}

\* C39: when a fresh search leaves matching nodes out because of the result
\* limit, none of the nodes left out has a strictly higher relevance than a
\* node that is returned.
C39_LimitKeepsHighestRelevance ==
  [][(discoveryReady /\ SearchAnswered /\ ~lastSearch'.cached) =>
       \A n \in DOMAIN meshNodes :
         (nodeMatchesQuery(meshNodes[n], lastSearch'.query)
            /\ n \notin NamesIn(lastSearch'.results)) =>
           \A i \in 1..Len(lastSearch'.results) :
             calculateRelevance(meshNodes[n]) <= lastSearch'.results[i].relevance]_vars

\* ------------------------------------------------------------------------
\* Claims about shutdown
\* ------------------------------------------------------------------------
\* C40: once shutdown has returned, the intake queue and the delivery queue
\* are empty and stay empty, and no envelope is delivered or archived, also
\* when a tick was suspended in the middle of a batch when shutdown ran.
C40_ShutdownIsFinal ==
  [][~isInitialized =>
       /\ messageQueue' = <<>>
       /\ deliveryQueue' = <<>>
       /\ inbox' = inbox
       /\ failedMessages' = failedMessages]_vars

====
